---- MODULE Spec2Model ----
(***************************************************************************)
(* Model of the profit engine (src/ai/profit_calculator.py) and of the     *)
(* BAN-risk filter (src/ai/ban_filter.py) with the two reference-data      *)
(* lookups of src/db/database.py.                                          *)
(*                                                                         *)
(* Representation.  Money is kept in integer cents (USD) and integer yen,  *)
(* fee rates and margins in units of 1/10000.  An optional value (Python   *)
(* None) is the empty tuple, a present value v is the 1-tuple <<v>>.  A    *)
(* text is a tuple of one-character strings.                               *)
(***************************************************************************)
EXTENDS Integers, Sequences, FiniteSets, TLC

VARIABLES
    weight_arg,            \* estimate_shipping: its argument
    shipping,              \* estimate_shipping: its return value
    profit_args,           \* calculate_profit: its arguments
    profit_result,         \* calculate_profit: its return value
    profit_again,          \* calculate_profit: what a second call returns
    suggest_args,          \* suggest_price: its arguments
    suggest_result,        \* suggest_price: its return value
    text,                  \* check_prohibited_keywords: its argument
    keyword_hits,          \* check_prohibited_keywords: its return value
    brand_blacklist,       \* table brand_blacklist, in row order
    country_restrictions,  \* table country_restrictions, in row order
    product,               \* check_ban_risk: the product dict
    sale_price_usd,        \* check_ban_risk: the optional sale price
    verdict,               \* check_ban_risk: its return value
    verdict_again,         \* check_ban_risk: what a second call returns
    products,              \* table products, in id order (id = position)
    upserted,              \* Database.upsert_product: the dict last passed to it
    fetched,               \* Database.get_product: its return value
    profit_call,           \* the arguments a caller last passed to calculate_profit
    listings,              \* table listings, in id order
    create_listing_calls,  \* the create_listing calls the marketplace clients received
    response,              \* a listing workflow: what it reported, per product
    clients,               \* the platforms a marketplace client is configured for
    orders,                \* table orders, in id order
    sync_log,              \* table sync_log, in id order
    runs,                  \* OrderProcessor.process: the local state of each call
    get_orders_calls,      \* the get_orders calls made: which run polled which client
    notified,              \* the order notifications handed to the notifier
    sync_run,              \* InventorySyncEngine.sync: the local state of each call
    platform_calls,        \* the deactivate/activate calls the clients received
    oauth,                 \* OAuthTokenManager: its platform and environment
    token_file,            \* the token file of the platform, or None
    clock,                 \* time.time(), in seconds
    token_result           \* get_valid_token: what it returned or raised

ShippingVars == <<weight_arg, shipping>>
ProfitVars == <<profit_args, profit_result, profit_again>>
SuggestVars == <<suggest_args, suggest_result>>
KeywordsVars == <<text, keyword_hits>>
BanVars ==
    <<brand_blacklist, country_restrictions, product, sale_price_usd, verdict,
      verdict_again>>

StoreVars == <<products, upserted, fetched, profit_call>>
ListingVars == <<listings, create_listing_calls, response>>
JobVars ==
    <<clients, orders, sync_log, runs, get_orders_calls, notified, sync_run,
      platform_calls>>
TokenVars == <<oauth, token_file, clock, token_result>>

vars ==
    <<ShippingVars, ProfitVars, SuggestVars, KeywordsVars, BanVars, StoreVars,
      ListingVars, JobVars, TokenVars>>

None == <<>>
Some(v) == <<v>>
Val(o) == o[1]

(***************************************************************************)
(* Python's round() of a quotient n/d (d > 0) to an integer number of      *)
(* units.  Away from an exact half the nearest integer is taken.  At an    *)
(* exact half the code rounds the binary double it has computed, which is  *)
(* not the half itself: above says whether that double lies above the      *)
(* exact half (result: the ceiling) or below it (result: the floor).       *)
(***************************************************************************)
IsHalf(n, d) == 2 * (n % d) = d

round(n, d, above) ==
    IF IsHalf(n, d)
    THEN (IF above THEN (n \div d) + 1 ELSE n \div d)
    ELSE (IF 2 * (n % d) > d THEN (n \div d) + 1 ELSE n \div d)

\* ---------------------------------------------------------------- constants
USD_JPY_RATE == 150

SHIPPING_TABLE ==
    << [max_weight |-> 50,   method |-> "ePacket Lite", cost_jpy |-> 580,  cost_usd |-> 387],
       [max_weight |-> 300,  method |-> "EMS",          cost_jpy |-> 3600, cost_usd |-> 2400],
       [max_weight |-> 2000, method |-> "EMS",          cost_jpy |-> 5000, cost_usd |-> 3333] >>

EBAY_FVF_RATE == 1325
EBAY_PAYMENT_FEE_USD == 30
ETSY_LISTING_FEE_USD == 20
ETSY_TRANSACTION_FEE_RATE == 650
ETSY_PAYMENT_FEE_RATE == 300
ETSY_PAYMENT_FEE_FIXED_USD == 25

PLATFORM_FEES ==
    [ebay |-> [fvf_rate |-> EBAY_FVF_RATE,
               payment_fee_fixed |-> EBAY_PAYMENT_FEE_USD,
               payment_fee_rate |-> 0,
               listing_fee |-> 0],
     etsy |-> [fvf_rate |-> ETSY_TRANSACTION_FEE_RATE,
               payment_fee_fixed |-> ETSY_PAYMENT_FEE_FIXED_USD,
               payment_fee_rate |-> ETSY_PAYMENT_FEE_RATE,
               listing_fee |-> ETSY_LISTING_FEE_USD]]

\* PLATFORM_FEES.get(platform, PLATFORM_FEES["ebay"]) (a mutant first: the
\* default is the etsy entry)
FeesForDefaultEtsy(platform) ==
    IF platform \in DOMAIN PLATFORM_FEES THEN PLATFORM_FEES[platform]
    ELSE PLATFORM_FEES["etsy"]

FeesFor(platform) ==
    IF platform \in DOMAIN PLATFORM_FEES THEN PLATFORM_FEES[platform]
    ELSE PLATFORM_FEES["ebay"]

\* ------------------------------------------------------- estimate_shipping
\* The label of the unknown-weight estimate is "ePacket Lite (suitei)" and the
\* label of the over-limit fallback "EMS (chouka juuryou)" in the source
\* (written there in Japanese).
\* (a mutant first: the tier bound compared with < instead of <=)
RECURSIVE ScanShippingTableStrict(_, _)
ScanShippingTableStrict(w, i) ==
    IF i > Len(SHIPPING_TABLE)
    THEN [method |-> "EMS (excess weight)",
          cost_jpy |-> 8000,
          cost_usd |-> round(8000 * 100, USD_JPY_RATE, FALSE)]
    ELSE IF w < SHIPPING_TABLE[i].max_weight
         THEN [method |-> SHIPPING_TABLE[i].method,
               cost_jpy |-> SHIPPING_TABLE[i].cost_jpy,
               cost_usd |-> SHIPPING_TABLE[i].cost_usd]
         ELSE ScanShippingTableStrict(w, i + 1)

RECURSIVE ScanShippingTable(_, _)
ScanShippingTable(w, i) ==
    IF i > Len(SHIPPING_TABLE)
    THEN [method |-> "EMS (excess weight)",
          cost_jpy |-> 8000,
          cost_usd |-> round(8000 * 100, USD_JPY_RATE, FALSE)]
    ELSE IF w <= SHIPPING_TABLE[i].max_weight
         THEN [method |-> SHIPPING_TABLE[i].method,
               cost_jpy |-> SHIPPING_TABLE[i].cost_jpy,
               cost_usd |-> SHIPPING_TABLE[i].cost_usd]
         ELSE ScanShippingTable(w, i + 1)

estimate_shipping(weight_g) ==
    IF weight_g = None
    THEN [method |-> "ePacket Lite (estimate)", cost_jpy |-> 580, cost_usd |-> 387]
    ELSE ScanShippingTable(Val(weight_g), 1)

\* -------------------------------------------------------- calculate_profit
(***************************************************************************)
(* The sale prices (in cents) at which sale * rate is an exact half cent   *)
(* and the double product the code rounds lies above that half, for the    *)
(* three non-zero rates and the modelled sale prices; at the other exact   *)
(* halves the double lies below.  (IEEE-754 binary64 evaluation of         *)
(* round(sale_usd * rate, 2).)                                             *)
(***************************************************************************)
FeeDoubleAboveHalf(rate, sale) ==
    \/ rate = EBAY_FVF_RATE /\ sale \in {200, 600, 1000, 1800, 11800}
    \/ rate = ETSY_TRANSACTION_FEE_RATE /\ sale \in {100, 300, 500, 700, 1100, 1500, 1900}
    \/ rate = ETSY_PAYMENT_FEE_RATE /\ sale \in {450}

(***************************************************************************)
(* The same for round(profit / sale_usd, 4): the pairs <<profit, sale>> of *)
(* the modelled inputs at which profit / sale is an exact half of 1/10000  *)
(* and the double quotient lies above it.                                  *)
(***************************************************************************)
MarginDoubleAboveHalf(profit, sale) ==
    <<profit, sale>> \in
        {<<-10413, 800>>, <<-8413, 800>>, <<-5987, 800>>, <<-5669, 800>>, <<-5069, 800>>, <<-4930, 1600>>,
         <<-4869, 800>>, <<-4669, 800>>, <<-4330, 1600>>, <<-4130, 1600>>,
         <<-3930, 1600>>, <<-3669, 800>>, <<-1442, 1600>>, <<-1242, 1600>>,
         <<-1042, 1600>>, <<-221, 800>>, <<-142, 1600>>, <<-123, 800>>,
         <<-21, 800>>, <<77, 800>>, <<179, 800>>, <<277, 800>>,
         <<458, 1600>>, <<658, 1600>>, <<858, 1600>>}

\* lines 124-128: the fee components and their sum (a mutant first: the
\* listing fee left out of the sum)
PlatformFeesWithoutListingFee(fees, sale_usd) ==
    LET fvf == round(sale_usd * fees.fvf_rate, 10000,
                     FeeDoubleAboveHalf(fees.fvf_rate, sale_usd))
        payment_variable == round(sale_usd * fees.payment_fee_rate, 10000,
                                  FeeDoubleAboveHalf(fees.payment_fee_rate, sale_usd))
    IN  [fvf |-> fvf,
         payment_fixed |-> fees.payment_fee_fixed,
         platform_fees |-> fvf + fees.payment_fee_fixed + payment_variable]

PlatformFeesOf(fees, sale_usd) ==
    LET fvf == round(sale_usd * fees.fvf_rate, 10000,
                     FeeDoubleAboveHalf(fees.fvf_rate, sale_usd))
        payment_fixed == fees.payment_fee_fixed
        payment_variable == round(sale_usd * fees.payment_fee_rate, 10000,
                                  FeeDoubleAboveHalf(fees.payment_fee_rate, sale_usd))
        listing_fee == fees.listing_fee
    IN  [fvf |-> fvf,
         payment_fixed |-> payment_fixed,
         platform_fees |-> fvf + payment_fixed + payment_variable + listing_fee]

\* line 135: round(profit / sale_usd, 4) if sale_usd > 0 else 0.0 (a mutant
\* first: the quotient cut off after four decimals instead of rounded)
MarginTruncated(profit, sale_usd) ==
    IF sale_usd > 0
    THEN (profit * 10000) \div sale_usd
    ELSE 0

MarginOf(profit, sale_usd) ==
    IF sale_usd > 0
    THEN round(profit * 10000, sale_usd, MarginDoubleAboveHalf(profit, sale_usd))
    ELSE 0

calculate_profit(wholesale_jpy, sale_usd, weight_g, shipping_override_usd, platform) ==
    LET fees == FeesFor(platform)
        wholesale_usd == round(wholesale_jpy * 100, USD_JPY_RATE, FALSE)
        ship == estimate_shipping(weight_g)
        shipping_usd == IF shipping_override_usd # None
                        THEN Val(shipping_override_usd)
                        ELSE ship.cost_usd
        pf == PlatformFeesOf(fees, sale_usd)
        fvf == pf.fvf
        payment_fixed == pf.payment_fixed
        platform_fees == pf.platform_fees
        total_cost == wholesale_usd + shipping_usd + platform_fees
        profit == sale_usd - total_cost
        margin == MarginOf(profit, sale_usd)
    IN  [sale_usd |-> sale_usd,
         wholesale_usd |-> wholesale_usd,
         wholesale_jpy |-> wholesale_jpy,
         shipping |-> ship,
         shipping_usd |-> shipping_usd,
         platform |-> platform,
         ebay_fvf_usd |-> fvf,
         ebay_payment_usd |-> payment_fixed,
         platform_fees_usd |-> platform_fees,
         total_cost_usd |-> total_cost,
         profit_usd |-> profit,
         profit_margin |-> margin,
         profitable |-> margin >= 2500]

\* ------------------------------------------------------------ suggest_price
(***************************************************************************)
(* suggest_price, lines 155-198.  target_margin is in units of 1/10000,    *)
(* so denominator = 1.0 - total_rate - target_margin is                    *)
(* (10000 - total_rate - target_margin) / 10000.  With fixed_costs in      *)
(* dollars = wholesale_jpy / 150 + cents / 100, the quotient               *)
(* fixed_costs / denominator in cents is                                   *)
(*     (2 * wholesale_jpy + 3 * cents) * 10000 / (3 * denominator).        *)
(* No exact half cent occurs among the modelled arguments.  The error      *)
(* result has the keys suggested_price_usd and error only (the message is  *)
(* a fixed string).                                                        *)
(***************************************************************************)
\* line 181 (a mutant first: a denominator of up to half a percent refused too)
DenominatorBelowHalfPercent(denominator) == denominator <= 50

DenominatorInfeasible(denominator) == denominator <= 0

\* lines 186-187 (a mutant first: the fixed payment fee and the listing fee
\* left out of the fixed costs)
SuggestedWithoutFixedFees(wholesale_jpy, shipping_usd, fees, denominator) ==
    round((2 * wholesale_jpy + 3 * shipping_usd) * 10000, 3 * denominator, FALSE)

Suggested(wholesale_jpy, shipping_usd, fees, denominator) ==
    round((2 * wholesale_jpy
           + 3 * (shipping_usd + fees.payment_fee_fixed + fees.listing_fee)) * 10000,
          3 * denominator, FALSE)

suggest_price(wholesale_jpy, weight_g, target_margin, platform) ==
    LET fees == FeesFor(platform)
        ship == estimate_shipping(weight_g)
        shipping_usd == ship.cost_usd
        total_rate == fees.fvf_rate + fees.payment_fee_rate
        denominator == 10000 - total_rate - target_margin
    IN  IF DenominatorInfeasible(denominator)
        THEN [suggested_price_usd |-> None,
              error |-> "target margin too high"]
        ELSE LET suggested == Suggested(wholesale_jpy, shipping_usd, fees, denominator)
                 breakdown == calculate_profit(wholesale_jpy, suggested, weight_g,
                                               None, platform)
             IN  [suggested_price_usd |-> Some(suggested),
                  target_margin |-> target_margin,
                  platform |-> platform,
                  breakdown |-> breakdown]

\* -------------------------------------------------------------------- text
(***************************************************************************)
(* The characters of the modelled texts in code-point order: Python        *)
(* compares strings by code point, and str.lower() maps "A".."Z" to        *)
(* "a".."z" and leaves the other characters of this alphabet alone.        *)
(***************************************************************************)
Chars ==
    <<" ", "%", "0", "1",
      "A", "B", "C", "D", "E", "F", "G", "H", "I", "J", "K", "L", "M",
      "N", "O", "P", "Q", "R", "S", "T", "U", "V", "W", "X", "Y", "Z",
      "a", "b", "c", "d", "e", "f", "g", "h", "i", "j", "k", "l", "m",
      "n", "o", "p", "q", "r", "s", "t", "u", "v", "w", "x", "y", "z">>

Ord(c) == CHOOSE i \in 1..Len(Chars) : Chars[i] = c

UpperToLower ==
    [c \in {Chars[i] : i \in Ord("A")..Ord("Z")} |->
        Chars[Ord(c) + (Ord("a") - Ord("A"))]]

LowerChar(c) == IF c \in DOMAIN UpperToLower THEN UpperToLower[c] ELSE c

\* str.lower()
RECURSIVE lower(_)
lower(t) == IF t = <<>> THEN <<>> ELSE <<LowerChar(Head(t))>> \o lower(Tail(t))

\* needle in hay (Python substring test)
Contains(needle, hay) ==
    \/ needle = <<>>
    \/ \E i \in 0..(Len(hay) - Len(needle)) :
          /\ hay[i + 1] = needle[1]
          /\ SubSeq(hay, i + 1, i + Len(needle)) = needle

\* " ".join(parts)
RECURSIVE Join(_)
Join(parts) ==
    IF parts = <<>> THEN <<>>
    ELSE IF Len(parts) = 1 THEN parts[1]
    ELSE parts[1] \o <<" ">> \o Join(Tail(parts))

\* a < b for two strings (code-point lexicographic order)
RECURSIVE StrLess(_, _)
StrLess(a, b) ==
    IF b = <<>> THEN FALSE
    ELSE IF a = <<>> THEN TRUE
    ELSE IF Ord(a[1]) # Ord(b[1]) THEN Ord(a[1]) < Ord(b[1])
    ELSE StrLess(Tail(a), Tail(b))

\* sorted(S) for a set S of strings
RECURSIVE sorted(_)
sorted(S) ==
    IF S = {} THEN <<>>
    ELSE LET m == CHOOSE x \in S : \A y \in S \ {x} : StrLess(x, y)
         IN  <<m>> \o sorted(S \ {m})

\* set(seq)
set(seq) == {seq[i] : i \in 1..Len(seq)}

\* ---------------------------------------------------------------- ban_filter
PROHIBITED_KEYWORDS ==
    << <<"d", "r", "o", "p", "s", "h", "i", "p">>,
       <<"d", "r", "o", "p", "s", "h", "i", "p", "p", "i", "n", "g">>,
       <<"d", "r", "o", "p", " ", "s", "h", "i", "p">>,
       <<"w", "h", "o", "l", "e", "s", "a", "l", "e">>,
       <<"b", "u", "l", "k", " ", "o", "r", "d", "e", "r">>,
       <<"r", "e", "p", "l", "i", "c", "a">>,
       <<"c", "o", "u", "n", "t", "e", "r", "f", "e", "i", "t">>,
       <<"f", "a", "k", "e">>,
       <<"k", "n", "o", "c", "k", "o", "f", "f">>,
       <<"i", "m", "i", "t", "a", "t", "i", "o", "n">>,
       <<"b", "o", "o", "t", "l", "e", "g">>,
       <<"g", "u", "a", "r", "a", "n", "t", "e", "e", "d", " ", "a", "u", "t", "h", "e", "n", "t", "i", "c">>,
       <<"1", "0", "0", "%", " ", "g", "e", "n", "u", "i", "n", "e">> >>

\* (a mutant first: the whole drop-shipping and replica groups of the list)
HighSeverityByGroup == {PROHIBITED_KEYWORDS[i] : i \in 1..11}

HIGH_SEVERITY_KEYWORDS ==
    { <<"r", "e", "p", "l", "i", "c", "a">>,
      <<"c", "o", "u", "n", "t", "e", "r", "f", "e", "i", "t">>,
      <<"f", "a", "k", "e">>,
      <<"d", "r", "o", "p", "s", "h", "i", "p">>,
      <<"d", "r", "o", "p", "s", "h", "i", "p", "p", "i", "n", "g">> }

RECURSIVE ScanKeywords(_, _, _)
ScanKeywords(text_lower, i, found) ==
    IF i > Len(PROHIBITED_KEYWORDS) THEN found
    ELSE LET keyword == PROHIBITED_KEYWORDS[i]
         IN  IF Contains(lower(keyword), text_lower)
             THEN ScanKeywords(text_lower, i + 1,
                      Append(found,
                             [keyword |-> keyword,
                              severity |-> IF keyword \in HIGH_SEVERITY_KEYWORDS
                                           THEN "high" ELSE "medium"]))
             ELSE ScanKeywords(text_lower, i + 1, found)

\* (a mutant first: the text is not lower-cased)
check_prohibited_keywords_case_sensitive(t) ==
    IF t = None \/ Val(t) = <<>> THEN <<>>
    ELSE ScanKeywords(Val(t), 1, <<>>)

\* text is optional: None and the empty string are both falsy
check_prohibited_keywords(t) ==
    IF t = None \/ Val(t) = <<>> THEN <<>>
    ELSE ScanKeywords(lower(Val(t)), 1, <<>>)

\* Database.is_brand_blacklisted: the rows whose brand name occurs in the text
RECURSIVE ScanBrands(_, _, _, _)
ScanBrands(brands, text_lower, i, matches) ==
    IF i > Len(brands) THEN matches
    ELSE IF Contains(lower(brands[i].brand_name), text_lower)
         THEN ScanBrands(brands, text_lower, i + 1, Append(matches, brands[i]))
         ELSE ScanBrands(brands, text_lower, i + 1, matches)

\* (a mutant first: the text is not lower-cased)
is_brand_blacklisted_case_sensitive(brands, t) == ScanBrands(brands, t, 1, <<>>)

is_brand_blacklisted(brands, t) == ScanBrands(brands, lower(t), 1, <<>>)

\* Database.get_country_restrictions:
\*   SELECT country_code, reason FROM country_restrictions WHERE category = ?
\* The query has no ORDER BY; SQLite answers it from the index of
\* UNIQUE(category, country_code), so the rows come in country_code order.
\* (a mutant first: the WHERE clause left out)
RestrictionOfAnyCategory(category, r) == TRUE

RestrictionOfCategory(category, r) == r.category = category

get_country_restrictions(restrictions, category) ==
    LET rows == SelectSeq(restrictions, LAMBDA r : RestrictionOfCategory(category, r))
        codes == sorted({rows[i].country_code : i \in 1..Len(rows)})
        RowOf(code) == rows[CHOOSE i \in 1..Len(rows) : rows[i].country_code = code]
    IN  [i \in 1..Len(codes) |->
            [country_code |-> codes[i], reason |-> RowOf(codes[i]).reason]]

\* Python truthiness of an optional string / an optional number
TruthyText(o) == o # None /\ Val(o) # <<>>
TruthyStr(o) == o # None /\ Val(o) # ""
TruthyInt(o) == o # None /\ Val(o) # 0

\* lines 86-96: the available name and description fields, joined by a space
CombinedText(p) ==
    LET fields == <<p.name_ja, p.name_en, p.description_ja, p.description_en>>
        present == SelectSeq(fields, TruthyText)
    IN  Join([i \in 1..Len(present) |-> Val(present[i])])

\* lines 98-105
BrandIssues(brand_matches) ==
    [i \in 1..Len(brand_matches) |->
        [type |-> "brand_blacklist",
         detail |-> [brand_name |-> brand_matches[i].brand_name,
                     risk_level |-> brand_matches[i].risk_level],
         severity |-> brand_matches[i].risk_level]]

\* lines 111-119
CountryIssues(rows) ==
    [i \in 1..Len(rows) |->
        [type |-> "country_restriction",
         detail |-> [country_code |-> rows[i].country_code, reason |-> rows[i].reason],
         severity |-> "high"]]

\* lines 122-128
KeywordIssues(hits) ==
    [i \in 1..Len(hits) |->
        [type |-> "prohibited_keyword",
         detail |-> [keyword |-> hits[i].keyword],
         severity |-> hits[i].severity]]

\* (a mutant first: a sale price of 0 taken for no sale price)
MarginIssuesTruthySale(p, sale) ==
    IF TruthyInt(sale) /\ TruthyInt(p.wholesale_price_jpy)
    THEN LET profit_res == calculate_profit(Val(p.wholesale_price_jpy), Val(sale),
                                            p.weight_g, None, "ebay")
         IN  IF ~profit_res.profitable
             THEN << [type |-> "low_margin",
                      detail |-> [margin_pct |-> round(profit_res.profit_margin, 10, FALSE)],
                      severity |-> "medium"] >>
             ELSE <<>>
    ELSE <<>>

\* lines 131-143; margin_pct is round(profit_margin * 100, 1), in tenths of a percent
MarginIssues(p, sale) ==
    IF sale # None /\ TruthyInt(p.wholesale_price_jpy)
    THEN LET profit_res == calculate_profit(Val(p.wholesale_price_jpy), Val(sale),
                                            p.weight_g, None, "ebay")
         IN  IF ~profit_res.profitable
             THEN << [type |-> "low_margin",
                      detail |-> [margin_pct |-> round(profit_res.profit_margin, 10, FALSE)],
                      severity |-> "medium"] >>
             ELSE <<>>
    ELSE <<>>

\* the issues list after the four checks have appended to it (a mutant first:
\* a brand match ends the checks)
CollectIssuesShortCircuit(brand_issues, country_issues, keyword_issues, margin_issues) ==
    IF brand_issues # <<>> THEN brand_issues
    ELSE country_issues \o keyword_issues \o margin_issues

CollectIssues(brand_issues, country_issues, keyword_issues, margin_issues) ==
    brand_issues \o country_issues \o keyword_issues \o margin_issues

\* (a mutant first: "medium" tested before "high")
RiskLevelMediumFirst(issues) ==
    IF issues = <<>> THEN "none"
    ELSE IF \E i \in 1..Len(issues) : issues[i].severity = "medium" THEN "medium"
    ELSE IF \E i \in 1..Len(issues) : issues[i].severity = "high" THEN "high"
    ELSE "low"

\* lines 146-153
RiskLevel(issues) ==
    IF issues = <<>> THEN "none"
    ELSE IF \E i \in 1..Len(issues) : issues[i].severity = "high" THEN "high"
    ELSE IF \E i \in 1..Len(issues) : issues[i].severity = "medium" THEN "medium"
    ELSE "low"

check_ban_risk(p, brands, restrictions, sale) ==
    LET combined_text == CombinedText(p)
        brand_matches == is_brand_blacklisted(brands, combined_text)
        category == p.category
        rows == IF TruthyStr(category)
                THEN get_country_restrictions(restrictions, Val(category))
                ELSE <<>>
        excluded_countries == [i \in 1..Len(rows) |-> rows[i].country_code]
        hits == check_prohibited_keywords(Some(combined_text))
        issues == CollectIssues(BrandIssues(brand_matches), CountryIssues(rows),
                                KeywordIssues(hits), MarginIssues(p, sale))
        risk_level == RiskLevel(issues)
    IN  [safe |-> risk_level \in {"none", "low"},
         issues |-> issues,
         risk_level |-> risk_level,
         excluded_countries |-> sorted(set(excluded_countries))]

\* ---------------------------------------------------------- products table
(***************************************************************************)
(* Database.upsert_product and Database.get_product.  A row has the        *)
(* columns the modelled callers read; its id is its position in the table  *)
(* (no row is ever deleted).  weight_g is INTEGER with no default          *)
(* (src/db/schema.py line 19), so None is stored as NULL and read back as  *)
(* None.                                                                   *)
(***************************************************************************)
\* line 161: the weight_g bound to the INSERT (a mutant first: product.get("weight_g") or 0)
StoredWeightOrZero(product_dict) ==
    IF product_dict.weight_g = None THEN Some(0) ELSE product_dict.weight_g

StoredWeight(product_dict) == product_dict.weight_g

\* the position of the row with that supplier_product_id (UNIQUE), or 0
RowOfSupplierProduct(rows, supplier_product_id) ==
    IF \E i \in 1..Len(rows) : rows[i].supplier_product_id = supplier_product_id
    THEN CHOOSE i \in 1..Len(rows) : rows[i].supplier_product_id = supplier_product_id
    ELSE 0

\* INSERT ... ON CONFLICT(supplier_product_id) DO UPDATE SET name_ja,
\* description_ja, wholesale_price_jpy, weight_g, ... (name_en, description_en
\* and category are not in the SET list)
upsert_product(rows, product_dict) ==
    LET i == RowOfSupplierProduct(rows, product_dict.supplier_product_id)
        stored == [product_dict EXCEPT !.weight_g = StoredWeight(product_dict)]
    IN  IF i = 0
        THEN Append(rows, stored)
        ELSE [rows EXCEPT ![i] = [@ EXCEPT !.name_ja = stored.name_ja,
                                           !.description_ja = stored.description_ja,
                                           !.wholesale_price_jpy = stored.wholesale_price_jpy,
                                           !.weight_g = stored.weight_g]]

get_product(rows, product_id) ==
    IF product_id \in 1..Len(rows) THEN Some(rows[product_id]) ELSE None

\* the keyword arguments check_ban_risk passes to calculate_profit, when it
\* calls it (ban_filter.py lines 131-136)
ProfitCallOfBanCheck(p, sale) ==
    IF sale # None /\ TruthyInt(p.wholesale_price_jpy)
    THEN Some([wholesale_jpy |-> p.wholesale_price_jpy, sale_usd |-> Val(sale),
               weight_g |-> p.weight_g, platform |-> "ebay"])
    ELSE None

\* the keyword arguments OrderProcessor._process_single_order passes to
\* calculate_profit for the product of an order (lines 134-141)
ProfitCallOfOrder(p, sale_usd, platform) ==
    Some([wholesale_jpy |-> p.wholesale_price_jpy, sale_usd |-> sale_usd,
          weight_g |-> p.weight_g, platform |-> platform])

\* ------------------------------------------------------ listing workflows
(***************************************************************************)
(* The listing commands of src/cli/main.py and the listing routes of       *)
(* src/dashboard/web.py.  What is outside the repository answers           *)
(* nondeterministically: generate_full_listing returns a title and a       *)
(* description or raises (None), a marketplace create_listing returns      *)
(* ("ok") or raises ("raise").  A create_listing call is recorded with the *)
(* country exclusions its request carries; a listings row with             *)
(* ban_check_passed and excluded_countries.                                *)
(***************************************************************************)
\* EbayClient._create_offer, lines 148 and 173-177: the countryExclusions of
\* the offer body, None when the body has no shipToLocationExclusions
CountryExclusionsOfOffer(listing_data_excluded) ==
    LET excluded == IF listing_data_excluded = None THEN <<>>
                    ELSE Val(listing_data_excluded)
    IN  IF excluded # <<>> THEN Some(excluded) ELSE None

\* client.create_listing(product, listing_data), then Database.create_listing
\* if the client returned.  excluded is listing_data's "excluded_countries",
\* None when the workflow sets no such key; only EbayClient reads it.  The
\* call is recorded with the workflow it came from.
CreateListing(st, workflow, client, product_id, excluded, market) ==
    [calls |-> Append(st.calls,
                      [workflow |-> workflow, client |-> client,
                       product_id |-> product_id,
                       exclusions |-> IF client = "ebay"
                                      THEN CountryExclusionsOfOffer(excluded)
                                      ELSE None]),
     rows |-> IF market = "ok"
              THEN Append(st.rows,
                          [product_id |-> product_id, platform |-> client,
                           ban_check_passed |-> TRUE, excluded_countries |-> excluded])
              ELSE st.rows]

\* [r["country_code"] for r in db.get_country_restrictions(category)] if category
ExcludedOfCategory(p) ==
    IF TruthyStr(p.category)
    THEN LET rows == get_country_restrictions(country_restrictions, Val(p.category))
         IN  [i \in 1..Len(rows) |-> rows[i].country_code]
    ELSE <<>>

\* src/cli/main.py platform_list_ebay (lines 562-634) and platform_list_etsy
\* (lines 637-706), which differ in the client and in that only list-ebay
\* puts the verdict's excluded_countries into listing_data and the row
platform_list(st, client, product_id, ai, market) ==
    LET p == get_product(products, product_id)
        ban_result == check_ban_risk(Val(p), brand_blacklist, country_restrictions, None)
        excluded == IF client = "ebay" THEN Some(ban_result.excluded_countries) ELSE None
    IN  IF p = None THEN [st |-> st, said |-> "not found"]
        ELSE IF ~ban_result.safe THEN [st |-> st, said |-> "ban risk"]
        ELSE IF ai = None THEN [st |-> st, said |-> "ai error"]
        ELSE [st |-> CreateListing(st, "cli list", client, product_id, excluded, market),
              said |-> IF market = "ok" THEN "listed" ELSE "listing error"]

\* src/dashboard/web.py api_list_ebay (lines 638-707)
api_list_ebay(st, product_id, data, market) ==
    LET p == get_product(products, product_id)
        text_ == data.title_en \o <<" ">> \o data.description_en
        brand_matches == is_brand_blacklisted(brand_blacklist, text_)
        excluded_countries == ExcludedOfCategory(Val(p))
    IN  IF p = None THEN [st |-> st, said |-> "404 not found"]
        ELSE IF data.title_en = <<>> \/ data.description_en = <<>>
                \/ ~TruthyInt(data.price_usd)
             THEN [st |-> st, said |-> "400 required"]
        ELSE IF brand_matches # <<>> THEN [st |-> st, said |-> "400 brand"]
        ELSE [st |-> CreateListing(st, "web list-ebay", "ebay", product_id,
                                   Some(excluded_countries), market),
              said |-> IF market = "ok" THEN "200 listed" ELSE "500 listing error"]

\* src/dashboard/web.py api_bulk_list (lines 763-881): one pass of the loop
bulk_list_product(st, pid, data, ai, market) ==
    LET p == get_product(products, pid)
        prod == Val(p)
        title_en == IF data.auto_generate THEN Some(Val(ai).title) ELSE prod.name_en
        description_en == IF data.auto_generate THEN Some(Val(ai).description)
                          ELSE prod.description_en
        text_ == Val(title_en) \o <<" ">> \o Val(description_en)
        brand_matches == is_brand_blacklisted(brand_blacklist, text_)
    IN  IF p = None THEN [st |-> st, said |-> "not found"]
        ELSE IF data.auto_generate /\ ai = None THEN [st |-> st, said |-> "ai error"]
        ELSE IF ~TruthyText(title_en) \/ ~TruthyText(description_en)
             THEN [st |-> st, said |-> "no english text"]
        ELSE IF brand_matches # <<>> THEN [st |-> st, said |-> "brand"]
        ELSE IF data.platform = "ebay"
             THEN IF ~TruthyInt(data.price_usd) THEN [st |-> st, said |-> "no price"]
                  ELSE [st |-> CreateListing(st, "web bulk-list", "ebay", pid,
                                             Some(ExcludedOfCategory(prod)), market),
                        said |-> IF market = "ok" THEN "listed" ELSE "listing error"]
        ELSE IF data.platform = "base"
             THEN [st |-> CreateListing(st, "web bulk-list", "base", pid, None, market),
                   said |-> IF market = "ok" THEN "listed" ELSE "listing error"]
        ELSE [st |-> st, said |-> "unsupported platform"]

\* the loop over data["product_ids"], from position i on
RECURSIVE api_bulk_list(_, _, _, _, _, _)
api_bulk_list(st, results, data, ais, markets, i) ==
    IF i > Len(data.product_ids) THEN [st |-> st, said |-> results]
    ELSE LET one == bulk_list_product(st, data.product_ids[i], data, ais[i], markets[i])
         IN  api_bulk_list(one.st, Append(results, one.said), data, ais, markets, i + 1)

\* ------------------------------------------------------------------ inputs
MaxWeight == 2100
MaxSaleDollars == 20

WeightArgs == {None} \cup {Some(w) : w \in (0 - 1)..MaxWeight}

WholesaleJpy == {0, 300, 600, 1500, 5000, 8638}
SaleUsd == {100 * k : k \in 0..MaxSaleDollars} \cup {0 - 500, 50, 450, 10000, 10001}
WeightG == {None} \cup {Some(w) : w \in {0, 50, 51, 300, 301, 2000, 2001}}
ShippingOverrideUsd == {None, Some(500)}
Platforms == {"ebay", "etsy", "base"}

ProfitArgs ==
    [wholesale_jpy : WholesaleJpy, sale_usd : SaleUsd, weight_g : WeightG,
     shipping_override_usd : ShippingOverrideUsd, platform : Platforms]

\* suggest_price: target margins (1/10000) below, at and above the feasibility
\* limit of each fee model (ebay 0.8675, etsy 0.905); the argument tuples are
\* those whose exact quotient fixed_costs / denominator, when there is one,
\* is at most MaxSuggestedUsd dollars
MaxSuggestedUsd == 1500
TargetMargins == {0, 2500, 3000, 5000, 8675, 9000, 9050}

SuggestedWithinBound(a) ==
    LET fees == FeesFor(a.platform)
        denominator == 10000 - fees.fvf_rate - fees.payment_fee_rate - a.target_margin
    IN  denominator > 0 =>
            (2 * a.wholesale_jpy
             + 3 * (estimate_shipping(a.weight_g).cost_usd
                    + fees.payment_fee_fixed + fees.listing_fee)) * 100
            <= MaxSuggestedUsd * 3 * denominator

SuggestArgs ==
    {a \in [wholesale_jpy : WholesaleJpy, weight_g : WeightG,
            target_margin : TargetMargins, platform : Platforms] :
        SuggestedWithinBound(a)}

\* the words the texts given to check_prohibited_keywords are made of
Words ==
    { <<"W", "e">>,
      <<"D", "R", "O", "P", "S", "H", "I", "P">>,
      <<"d", "r", "o", "p", "s", "h", "i", "p", "p", "i", "n", "g">>,
      <<"d", "r", "o", "p">>,
      <<"s", "h", "i", "p">>,
      <<"W", "h", "o", "l", "e", "s", "a", "l", "e">>,
      <<"b", "u", "l", "k", " ", "o", "r", "d", "e", "r">>,
      <<"r", "e", "p", "l", "i", "c", "a">>,
      <<"C", "o", "u", "n", "t", "e", "r", "f", "e", "i", "t">>,
      <<"f", "a", "k", "e">>,
      <<"k", "n", "o", "c", "k", "o", "f", "f">>,
      <<"i", "m", "i", "t", "a", "t", "i", "o", "n">>,
      <<"b", "o", "o", "t", "l", "e", "g">>,
      <<"G", "u", "a", "r", "a", "n", "t", "e", "e", "d", " ", "A", "u", "t", "h", "e", "n", "t", "i", "c">>,
      <<"1", "0", "0", "%", " ", "g", "e", "n", "u", "i", "n", "e">>,
      <<"t", "o", "w", "e", "l">> }

MaxWords == 2

KeywordTexts ==
    {None, Some(<<>>)}
    \cup {Some(Join(ws)) : ws \in UNION {[1..n -> Words] : n \in 1..MaxWords}}

\* table brand_blacklist as seeded (src/db/schema.py SEED_BRAND_BLACKLIST; the
\* sixth name has a u-umlaut in the source), and with two rows added to it
SEED_BRAND_BLACKLIST ==
    << [brand_name |-> <<"S", "h", "u", "n">>, platform |-> "ebay", risk_level |-> "high"],
       [brand_name |-> <<"G", "l", "o", "b", "a", "l">>, platform |-> "ebay", risk_level |-> "high"],
       [brand_name |-> <<"M", "i", "y", "a", "b", "i">>, platform |-> "ebay", risk_level |-> "high"],
       [brand_name |-> <<"K", "a", "i">>, platform |-> "ebay", risk_level |-> "high"],
       [brand_name |-> <<"Z", "w", "i", "l", "l", "i", "n", "g">>, platform |-> "all", risk_level |-> "high"],
       [brand_name |-> <<"W", "u", "s", "t", "h", "o", "f">>, platform |-> "all", risk_level |-> "high"],
       [brand_name |-> <<"V", "i", "c", "t", "o", "r", "i", "n", "o", "x">>, platform |-> "all", risk_level |-> "high"],
       [brand_name |-> <<"S", "a", "n", "r", "i", "o">>, platform |-> "all", risk_level |-> "high"],
       [brand_name |-> <<"S", "t", "u", "d", "i", "o", " ", "G", "h", "i", "b", "l", "i">>, platform |-> "all", risk_level |-> "high"],
       [brand_name |-> <<"N", "i", "n", "t", "e", "n", "d", "o">>, platform |-> "all", risk_level |-> "high"] >>

MoreBrands ==
    SEED_BRAND_BLACKLIST \o
    << [brand_name |-> <<"H", "e", "l", "l", "o", " ", "K", "i", "t", "t", "y">>, platform |-> "all", risk_level |-> "medium"],
       [brand_name |-> <<"A", "r", "i", "t", "a">>, platform |-> "etsy", risk_level |-> "low"] >>


\* table country_restrictions as seeded (SEED_COUNTRY_RESTRICTIONS), and a
\* table with more rows, inserted in another order
SEED_COUNTRY_RESTRICTIONS ==
    << [category |-> "knife", country_code |-> <<"G", "B">>, reason |-> "Offensive Weapons Act 2019"],
       [category |-> "knife", country_code |-> <<"I", "E">>, reason |-> "knife import rules"] >>

MoreRestrictions ==
    << [category |-> "knife", country_code |-> <<"I", "E">>, reason |-> "knife import rules"],
       [category |-> "sword", country_code |-> <<"U", "S">>, reason |-> "state law"],
       [category |-> "knife", country_code |-> <<"G", "B">>, reason |-> "Offensive Weapons Act 2019"],
       [category |-> "knife", country_code |-> <<"A", "U">>, reason |-> "customs"],
       [category |-> "sword", country_code |-> <<"G", "B">>, reason |-> "Offensive Weapons Act 2019"] >>

\* the database as seeded, and with the added rows
Databases ==
    {<<SEED_BRAND_BLACKLIST, SEED_COUNTRY_RESTRICTIONS>>, <<MoreBrands, MoreRestrictions>>}

NameJa ==
    {None, Some(<<>>),
     Some(<<"J", "a", "p", "a", "n", "e", "s", "e", " ", "T", "e", "n", "u", "g", "u", "i">>),
     Some(<<"S", "h", "u", "n", " ", "C", "l", "a", "s", "s", "i", "c">>),
     Some(<<"S", "H", "U", "N", " ", "r", "e", "p", "l", "i", "c", "a">>),
     Some(<<"H", "e", "l", "l", "o", " ", "K", "i", "t", "t", "y", " ", "w", "h", "o", "l", "e", "s", "a", "l", "e">>),
     Some(<<"S", "t", "u", "d", "i", "o">>)}
NameEn ==
    {None, Some(<<"G", "h", "i", "b", "l", "i", " ", "t", "o", "w", "e", "l">>),
     Some(<<"A", "r", "i", "t", "a", " ", "p", "l", "a", "t", "e">>)}
DescriptionJa ==
    {None, Some(<<"u", "n">>)}
DescriptionEn ==
    {None, Some(<<"1", "0", "0", "%", " ", "G", "e", "n", "u", "i", "n", "e">>)}
Categories == {None, Some(""), Some("tenugui"), Some("knife")}
WholesalePriceJpy == {None, Some(0), Some(400)}
ProductWeightG == {None, Some(300)}
SalePriceUsd == {None, Some(0), Some(1500)}

Products ==
    [name_ja : NameJa, name_en : NameEn, description_ja : DescriptionJa,
     description_en : DescriptionEn, category : Categories,
     wholesale_price_jpy : WholesalePriceJpy, weight_g : ProductWeightG]

\* the product dicts the scrapers upsert (no English fields yet)
SupplierProductIds == {"N-1", "N-2"}

ScrapedProducts ==
    [supplier_product_id : SupplierProductIds,
     name_ja : {Some(<<"J", "a", "p", "a", "n", "e", "s", "e", " ", "T", "e", "n", "u", "g", "u", "i">>)},
     name_en : {None}, description_ja : {None}, description_en : {None},
     category : {None, Some("knife")},
     wholesale_price_jpy : {None, Some(300)},
     weight_g : {None, Some(0), Some(300)}]

\* the sale price of an order and the platforms orders come from
OrderSaleUsd == 1500
OrderPlatforms == {"ebay", "etsy"}

\* the products a listing is asked for: with no English fields, with clean
\* ones, and with a prohibited phrase in the English description
ListedProducts ==
    {p \in [supplier_product_id : {"N-1"},
            name_ja : {Some(<<"J", "a", "p", "a", "n", "e", "s", "e", " ", "T", "e", "n", "u", "g", "u", "i">>), Some(<<"S", "H", "U", "N", " ", "r", "e", "p", "l", "i", "c", "a">>)},
            name_en : {None, Some(<<"A", "r", "i", "t", "a", " ", "p", "l", "a", "t", "e">>)},
            description_ja : {None},
            description_en : {None, Some(<<"u", "n">>), Some(<<"1", "0", "0", "%", " ", "G", "e", "n", "u", "i", "n", "e">>)},
            category : {None, Some("knife")},
            wholesale_price_jpy : {Some(300)},
            weight_g : {None}] :
        (p.name_en = None) <=> (p.description_en = None)}

\* ids asked for: the stored product and one that does not exist
ProductIds == {1, 2}

\* what generate_full_listing answers: a title and a description, or it raises
AiOutcomes ==
    {None,
     Some([title |-> <<"A", "r", "i", "t", "a", " ", "p", "l", "a", "t", "e">>, description |-> <<"u", "n">>]),
     Some([title |-> <<"S", "h", "u", "n", " ", "C", "l", "a", "s", "s", "i", "c">>, description |-> <<"u", "n">>])}
MarketOutcomes == {"ok", "raise"}

\* the JSON bodies of POST /api/products/<id>/list-ebay
ListEbayBodies ==
    [title_en : {<<>>, <<"A", "r", "i", "t", "a", " ", "p", "l", "a", "t", "e">>, <<"S", "h", "u", "n", " ", "C", "l", "a", "s", "s", "i", "c">>},
     description_en : {<<>>, <<"u", "n">>},
     price_usd : {None, Some(1500)}]

\* the JSON bodies of POST /api/products/bulk-list
BulkListBodies ==
    [product_ids : {<<1>>, <<2, 1>>, <<1, 1>>},
     platform : {"ebay", "base", "etsy"},
     auto_generate : BOOLEAN,
     price_usd : {None, Some(1500)}]


\* ----------------------------------------------------------------- actions
ShippingIdle == weight_arg = None /\ shipping = None
ProfitIdle == profit_args = None /\ profit_result = None /\ profit_again = None
SuggestIdle == suggest_args = None /\ suggest_result = None
KeywordsIdle == text = None /\ keyword_hits = None
BanIdle ==
    /\ brand_blacklist = <<>>
    /\ country_restrictions = <<>>
    /\ product = None
    /\ sale_price_usd = None
    /\ verdict = None
    /\ verdict_again = None
StoreIdle == products = <<>> /\ upserted = None /\ fetched = None /\ profit_call = None
ListingIdle == listings = <<>> /\ create_listing_calls = <<>> /\ response = <<>>
JobIdle ==
    /\ clients = <<>>
    /\ orders = <<>>
    /\ sync_log = <<>>
    /\ runs = <<>>
    /\ get_orders_calls = {}
    /\ notified = <<>>
    /\ sync_run = <<>>
    /\ platform_calls = <<>>
TokenIdle == oauth = None /\ token_file = None /\ clock = 0 /\ token_result = None

\* a call of estimate_shipping(weight_arg)
EstimateShipping ==
    /\ shipping = None
    /\ shipping' = Some(estimate_shipping(weight_arg))
    /\ UNCHANGED <<weight_arg, ProfitVars, SuggestVars, KeywordsVars, BanVars,
                   StoreVars, ListingVars, JobVars,
                   TokenVars>>

\* a call of calculate_profit(**profit_args)
CalculateProfit ==
    /\ profit_args # None
    /\ profit_result = None
    /\ LET a == Val(profit_args)
       IN  profit_result' = Some(calculate_profit(a.wholesale_jpy, a.sale_usd,
                                    a.weight_g, a.shipping_override_usd, a.platform))
    /\ UNCHANGED <<profit_args, profit_again, ShippingVars, SuggestVars,
                   KeywordsVars, BanVars,
                   StoreVars, ListingVars, JobVars,
                   TokenVars>>

\* the same call of calculate_profit once more
CalculateProfitAgain ==
    /\ profit_result # None
    /\ profit_again = None
    /\ LET a == Val(profit_args)
       IN  profit_again' = Some(calculate_profit(a.wholesale_jpy, a.sale_usd,
                                   a.weight_g, a.shipping_override_usd, a.platform))
    /\ UNCHANGED <<profit_args, profit_result, ShippingVars, SuggestVars,
                   KeywordsVars, BanVars,
                   StoreVars, ListingVars, JobVars,
                   TokenVars>>

InitShipping ==
    /\ weight_arg \in WeightArgs
    /\ shipping = None
    /\ ProfitIdle /\ SuggestIdle /\ KeywordsIdle /\ BanIdle
    /\ StoreIdle /\ ListingIdle /\ JobIdle /\ TokenIdle

NextShipping == EstimateShipping

SpecShipping == InitShipping /\ [][NextShipping]_vars

InitProfit ==
    /\ profit_args \in {Some(a) : a \in ProfitArgs}
    /\ profit_result = None
    /\ profit_again = None
    /\ ShippingIdle /\ SuggestIdle /\ KeywordsIdle /\ BanIdle
    /\ StoreIdle /\ ListingIdle /\ JobIdle /\ TokenIdle

NextProfit == CalculateProfit

SpecProfit == InitProfit /\ [][NextProfit]_vars

\* a call of suggest_price(**suggest_args)
SuggestPrice ==
    /\ suggest_args # None
    /\ suggest_result = None
    /\ LET a == Val(suggest_args)
       IN  suggest_result' = Some(suggest_price(a.wholesale_jpy, a.weight_g,
                                               a.target_margin, a.platform))
    /\ UNCHANGED <<suggest_args, ShippingVars, ProfitVars, KeywordsVars, BanVars,
                   StoreVars, ListingVars, JobVars,
                   TokenVars>>

InitSuggest ==
    /\ suggest_args \in {Some(a) : a \in SuggestArgs}
    /\ suggest_result = None
    /\ ShippingIdle /\ ProfitIdle /\ KeywordsIdle /\ BanIdle
    /\ StoreIdle /\ ListingIdle /\ JobIdle /\ TokenIdle

NextSuggest == SuggestPrice

SpecSuggest == InitSuggest /\ [][NextSuggest]_vars

\* the profit engine: either function called once
InitEngine == InitProfit \/ InitSuggest

NextEngine == CalculateProfit \/ SuggestPrice

SpecEngine == InitEngine /\ [][NextEngine]_vars

\* a call of check_prohibited_keywords(text)
CheckProhibitedKeywords ==
    /\ keyword_hits = None
    /\ keyword_hits' = Some(check_prohibited_keywords(text))
    /\ UNCHANGED <<text, ShippingVars, ProfitVars, SuggestVars, BanVars,
                   StoreVars, ListingVars, JobVars,
                   TokenVars>>

\* a call of check_ban_risk(product, db, sale_price_usd) (a mutant first: the
\* call takes the category out of the product dict it was given)
CheckBanRiskPoppingCategory ==
    /\ product # None
    /\ verdict = None
    /\ verdict' = Some(check_ban_risk(Val(product), brand_blacklist,
                                      country_restrictions, sale_price_usd))
    /\ product' = Some([Val(product) EXCEPT !.category = None])
    /\ UNCHANGED <<brand_blacklist, country_restrictions, sale_price_usd,
                   verdict_again, ShippingVars, ProfitVars, SuggestVars, KeywordsVars,
                   StoreVars, ListingVars, JobVars,
                   TokenVars>>

CheckBanRisk ==
    /\ product # None
    /\ verdict = None
    /\ verdict' = Some(check_ban_risk(Val(product), brand_blacklist,
                                      country_restrictions, sale_price_usd))
    /\ UNCHANGED <<brand_blacklist, country_restrictions, product, sale_price_usd,
                   verdict_again, ShippingVars, ProfitVars, SuggestVars, KeywordsVars,
                   StoreVars, ListingVars, JobVars,
                   TokenVars>>

\* the same call of check_ban_risk once more
CheckBanRiskAgain ==
    /\ verdict # None
    /\ verdict_again = None
    /\ verdict_again' = Some(check_ban_risk(Val(product), brand_blacklist,
                                            country_restrictions, sale_price_usd))
    /\ UNCHANGED <<brand_blacklist, country_restrictions, product, sale_price_usd,
                   verdict, ShippingVars, ProfitVars, SuggestVars, KeywordsVars,
                   StoreVars, ListingVars, JobVars,
                   TokenVars>>

InitKeywords ==
    /\ text \in KeywordTexts
    /\ keyword_hits = None
    /\ ShippingIdle /\ ProfitIdle /\ SuggestIdle /\ BanIdle
    /\ StoreIdle /\ ListingIdle /\ JobIdle /\ TokenIdle

NextKeywords == CheckProhibitedKeywords

SpecKeywords == InitKeywords /\ [][NextKeywords]_vars

InitBan ==
    /\ \E db \in Databases : brand_blacklist = db[1] /\ country_restrictions = db[2]
    /\ product \in {Some(p) : p \in Products}
    /\ sale_price_usd \in SalePriceUsd
    /\ verdict = None
    /\ verdict_again = None
    /\ ShippingIdle /\ ProfitIdle /\ SuggestIdle /\ KeywordsIdle
    /\ StoreIdle /\ ListingIdle /\ JobIdle /\ TokenIdle

NextBan == CheckBanRisk

SpecBan == InitBan /\ [][NextBan]_vars

\* either function called twice with the same arguments and reference data
InitRepeat == InitProfit \/ InitBan

NextRepeat ==
    \/ CalculateProfit
    \/ CalculateProfitAgain
    \/ CheckBanRisk
    \/ CheckBanRiskAgain

SpecRepeat == InitRepeat /\ [][NextRepeat]_vars

\* Database.upsert_product(p)
UpsertProduct ==
    /\ fetched = None
    /\ \E p \in ScrapedProducts :
          /\ products' = upsert_product(products, p)
          /\ upserted' = Some(p)
    /\ UNCHANGED <<fetched, profit_call, ShippingVars, ProfitVars, SuggestVars,
                   KeywordsVars, BanVars, ListingVars, JobVars,
                   TokenVars>>

\* Database.get_product(product_id)
GetProduct ==
    /\ fetched = None
    /\ \E product_id \in 0..Len(products) :
          fetched' = get_product(products, product_id)
    /\ UNCHANGED <<products, upserted, profit_call, ShippingVars, ProfitVars,
                   SuggestVars, KeywordsVars, BanVars, ListingVars, JobVars,
                   TokenVars>>

\* check_ban_risk(fetched, db, sale) on the row get_product returned
CheckBanRiskFetched ==
    /\ fetched # None
    /\ verdict = None
    /\ \E sale \in SalePriceUsd :
          LET call == ProfitCallOfBanCheck(Val(fetched), sale)
          IN  /\ product' = fetched
              /\ sale_price_usd' = sale
              /\ verdict' = Some(check_ban_risk(Val(fetched), brand_blacklist,
                                                country_restrictions, sale))
              /\ profit_call' = IF call = None THEN profit_call ELSE call
    /\ UNCHANGED <<brand_blacklist, country_restrictions, verdict_again, products,
                   upserted, fetched, ShippingVars, ProfitVars, SuggestVars,
                   KeywordsVars, ListingVars, JobVars,
                   TokenVars>>

\* OrderProcessor._process_single_order, lines 131-142: the profit of an order
\* whose listing belongs to the fetched product; with no wholesale price
\* stored, calculate_profit raises TypeError and returns nothing
OrderProfit ==
    /\ fetched # None
    /\ profit_result = None
    /\ \E platform \in OrderPlatforms :
          LET p == Val(fetched)
          IN  /\ profit_call' = ProfitCallOfOrder(p, OrderSaleUsd, platform)
              /\ profit_result' =
                    IF p.wholesale_price_jpy = None THEN None
                    ELSE Some(calculate_profit(Val(p.wholesale_price_jpy), OrderSaleUsd,
                                               p.weight_g, None, platform))
    /\ UNCHANGED <<profit_args, profit_again, products, upserted, fetched,
                   ShippingVars, SuggestVars, KeywordsVars, BanVars, ListingVars, JobVars,
                   TokenVars>>

InitStore ==
    /\ brand_blacklist = SEED_BRAND_BLACKLIST
    /\ country_restrictions = SEED_COUNTRY_RESTRICTIONS
    /\ product = None /\ sale_price_usd = None
    /\ verdict = None /\ verdict_again = None
    /\ ShippingIdle /\ ProfitIdle /\ SuggestIdle /\ KeywordsIdle
    /\ StoreIdle /\ ListingIdle /\ JobIdle /\ TokenIdle

NextStore ==
    \/ UpsertProduct
    \/ GetProduct
    \/ CheckBanRiskFetched
    \/ OrderProfit

SpecStore == InitStore /\ [][NextStore]_vars

\* the state a listing workflow leaves, given what it computed; one workflow
\* runs in a behaviour (response is empty until it has)
Listed(st, results) ==
    /\ create_listing_calls' = st.calls
    /\ listings' = st.rows
    /\ response' = results
    /\ UNCHANGED <<ShippingVars, ProfitVars, SuggestVars, KeywordsVars, BanVars,
                   StoreVars, JobVars,
                   TokenVars>>

ListingState == [calls |-> create_listing_calls, rows |-> listings]

\* ds platform list-ebay --id product_id --price ...
PlatformListEbay ==
    /\ response = <<>>
    /\ \E product_id \in ProductIds, ai \in AiOutcomes, market \in MarketOutcomes :
          LET out == platform_list(ListingState, "ebay", product_id, ai, market)
          IN  Listed(out.st, <<out.said>>)

\* ds platform list-etsy --id product_id --price ...
PlatformListEtsy ==
    /\ response = <<>>
    /\ \E product_id \in ProductIds, ai \in AiOutcomes, market \in MarketOutcomes :
          LET out == platform_list(ListingState, "etsy", product_id, ai, market)
          IN  Listed(out.st, <<out.said>>)

\* POST /api/products/<product_id>/list-ebay
ApiListEbay ==
    /\ response = <<>>
    /\ \E product_id \in ProductIds, data \in ListEbayBodies, market \in MarketOutcomes :
          LET out == api_list_ebay(ListingState, product_id, data, market)
          IN  Listed(out.st, <<out.said>>)

\* POST /api/products/bulk-list
ApiBulkList ==
    /\ response = <<>>
    /\ \E data \in BulkListBodies :
          \E ais \in [DOMAIN data.product_ids ->
                          IF data.auto_generate THEN AiOutcomes ELSE {None}],
             markets \in [DOMAIN data.product_ids -> MarketOutcomes] :
             LET out == api_bulk_list(ListingState, <<>>, data, ais, markets, 1)
             IN  Listed(out.st, out.said)

InitListing ==
    /\ \E db \in Databases : brand_blacklist = db[1] /\ country_restrictions = db[2]
    /\ products \in {<<p>> : p \in ListedProducts}
    /\ upserted = None /\ fetched = None /\ profit_call = None
    /\ product = None /\ sale_price_usd = None
    /\ verdict = None /\ verdict_again = None
    /\ ShippingIdle /\ ProfitIdle /\ SuggestIdle /\ KeywordsIdle /\ ListingIdle
    /\ JobIdle /\ TokenIdle

NextListing ==
    \/ PlatformListEbay
    \/ PlatformListEtsy
    \/ ApiListEbay
    \/ ApiBulkList

SpecListing == InitListing /\ [][NextListing]_vars

\* ---------------------------------------------------------- order processor
(***************************************************************************)
(* OrderProcessor.process and _process_single_order, one step per call of  *)
(* the database or of a marketplace client: every Database method opens    *)
(* its own connection and commits on return, so each call is atomic and    *)
(* nothing is atomic across two calls.  runs[r] is the local state of the  *)
(* r-th call of process(): its program counter, its arguments and locals.  *)
(***************************************************************************)
MaxRuns == 2
Runs == 1..MaxRuns

IdleRun ==
    [pc |-> "idle", platform |-> None, sync_id |-> 0,
     results |-> [new_orders |-> 0, total_revenue_usd |-> 0,
                  total_profit_usd |-> 0, errors |-> <<>>],
     to_check |-> <<>>, feed |-> <<>>, listing |-> None, product |-> None]

\* process: the clients it polls, in the order of the clients dict
platforms_to_check(platform, configured) ==
    IF platform # None /\ \E i \in DOMAIN configured : configured[i] = Val(platform)
    THEN <<Val(platform)>>
    ELSE configured

\* the mutant finds no row, whatever the table holds
get_order_by_platform_idNever(rows, platform, platform_order_id) == None

\* Database.get_order_by_platform_id: the first row of the pair, or None
get_order_by_platform_id(rows, platform, platform_order_id) ==
    LET hits == {i \in DOMAIN rows :
                    /\ rows[i].platform = platform
                    /\ rows[i].platform_order_id = platform_order_id}
    IN  IF hits = {} THEN None
        ELSE Some(rows[CHOOSE i \in hits : \A j \in hits : i <= j])

\* Database.get_listing_by_platform_id: the first row of the pair, or None
get_listing_by_platform_id(rows, platform, platform_listing_id) ==
    LET hits == {i \in DOMAIN rows :
                    /\ rows[i].platform = platform
                    /\ rows[i].platform_listing_id = Some(platform_listing_id)}
    IN  IF hits = {} THEN None
        ELSE Some(rows[CHOOSE i \in hits : \A j \in hits : i <= j])

\* _process_single_order: the listing of the first item that has one
ListingOfItems(rows, platform, items) ==
    LET found == {i \in DOMAIN items :
                     get_listing_by_platform_id(rows, platform, items[i]) # None}
    IN  IF found = {} THEN None
        ELSE get_listing_by_platform_id(
                 rows, platform, items[CHOOSE i \in found : \A j \in found : i <= j])

\* Database.update_listing stamps updated_at with the time of the call
UpdatedAt(rows) ==
    1 + (CHOOSE t \in {rows[i].updated_at : i \in DOMAIN rows} :
            \A i \in DOMAIN rows : rows[i].updated_at <= t)

\* Database.update_listing(listing_id, {"sales": sales})
update_listing_sales(rows, listing_id, sales) ==
    [rows EXCEPT ![listing_id].sales = sales,
                 ![listing_id].updated_at = UpdatedAt(rows)]

\* the mutant counts from the default of listing.get("sales", 0)
SalesAfterOrderFromZero(listing) == 0 + 1

\* _process_single_order: the counter it writes, from the listing it read
SalesAfterOrder(listing) == listing.sales + 1

\* _process_single_order: wholesale cost and profit of the order
WholesaleOfOrder(product_row) ==
    IF product_row = None THEN 0 ELSE Val(Val(product_row).wholesale_price_jpy)
ProfitOfOrder(product_row, order, platform) ==
    IF product_row = None THEN 0
    ELSE calculate_profit(Val(Val(product_row).wholesale_price_jpy),
                          order.sale_price_usd,
                          Val(product_row).weight_g, None, platform).profit_usd

\* the row _process_single_order hands to Database.create_order
OrderRecord(rs, order, platform) ==
    [listing_id |-> IF rs.listing = None THEN None ELSE Some(Val(rs.listing).id),
     platform |-> platform,
     platform_order_id |-> order.platform_order_id,
     sale_price_usd |-> order.sale_price_usd,
     wholesale_cost_jpy |-> WholesaleOfOrder(rs.product),
     profit_usd |-> ProfitOfOrder(rs.product, order, platform),
     status |-> "pending"]

\* process: on to the next client, or to the end of the run
NextPlatform(rs) ==
    LET rest == Tail(rs.to_check)
    IN  [rs EXCEPT !.to_check = rest, !.feed = <<>>, !.listing = None,
                   !.product = None,
                   !.pc = IF rest = <<>> THEN "complete" ELSE "get_orders"]

\* process: on to the next order of the feed
NextOrder(rs) ==
    LET rest == Tail(rs.feed)
    IN  IF rest = <<>> THEN NextPlatform(rs)
        ELSE [rs EXCEPT !.feed = rest, !.listing = None, !.product = None,
                        !.pc = "check"]

\* process: an exception inside the loop of one client ends that client's feed
PlatformFailed(rs, error) ==
    NextPlatform([rs EXCEPT !.results.errors = Append(@, error)])

\* the orders, listings and products the runs work on
JobProduct(wholesale_price_jpy, stock_status) ==
    [name_ja |-> <<"t">>, wholesale_price_jpy |-> wholesale_price_jpy,
     weight_g |-> Some(50), stock_status |-> stock_status]
JobListing(id, product_id, platform, platform_listing_id, status, sales, updated_at) ==
    [id |-> id, product_id |-> product_id, platform |-> platform,
     platform_listing_id |-> platform_listing_id, status |-> status,
     sales |-> sales, updated_at |-> updated_at]
OrderListings ==
    <<JobListing(1, Some(1), "ebay", Some("L-1"), "active", 2, 1),
      JobListing(2, Some(2), "etsy", Some("L-1"), "active", 0, 2)>>
OrderProducts ==
    {<<JobProduct(Some(300), "in_stock"), JobProduct(w, "in_stock")>> :
        w \in {Some(600), None}}
OrderData(platform_order_id, items) ==
    [platform_order_id |-> platform_order_id, items |-> items,
     sale_price_usd |-> OrderSaleUsd]
OrderFeeds ==
    {<<OrderData("O-1", <<"L-1">>)>>,
     <<OrderData("O-1", <<"L-1">>), OrderData("O-2", <<"L-X", "L-1">>)>>,
     <<OrderData("O-3", <<"L-X">>)>>}
GetOrdersAnswers == {None} \cup {Some(feed) : feed \in OrderFeeds}
ClientSets == {<<"ebay">>, <<"ebay", "etsy">>}
PlatformArgs == {None, Some("ebay"), Some("etsy")}

SyncOff == sync_run = [pc |-> "off"] /\ platform_calls = <<>>

InitOrders ==
    /\ clients \in ClientSets
    /\ products \in OrderProducts
    /\ listings = OrderListings
    /\ orders = <<>>
    /\ sync_log = <<>>
    /\ runs = [r \in Runs |-> IdleRun]
    /\ get_orders_calls = {}
    /\ notified = <<>>
    /\ SyncOff
    /\ upserted = None /\ fetched = None /\ profit_call = None
    /\ create_listing_calls = <<>> /\ response = <<>>
    /\ ShippingIdle /\ ProfitIdle /\ SuggestIdle /\ KeywordsIdle /\ BanIdle
    /\ TokenIdle

OrdersUnchanged ==
    UNCHANGED <<clients, products, upserted, fetched, profit_call,
                create_listing_calls, response, sync_run, platform_calls,
                ShippingVars, ProfitVars, SuggestVars, KeywordsVars, BanVars,
                TokenVars>>

\* no other call of process() is under way
Alone(r) == \A q \in Runs \ {r} : runs[q].pc \in {"idle", "done"}

\* process(platform): create_sync_log and the choice of the clients
ProcessStart(r) ==
    /\ runs[r].pc = "idle"
    /\ \A q \in Runs : q < r => runs[q].pc # "idle"
    /\ \E platform \in PlatformArgs :
          /\ sync_log' = Append(sync_log,
                [sync_type |-> "orders",
                 platform |-> IF platform = None THEN "all" ELSE Val(platform),
                 status |-> "running", items_checked |-> 0, items_changed |-> 0])
          /\ runs' = [runs EXCEPT ![r] =
                [IdleRun EXCEPT !.pc = "get_orders", !.platform = platform,
                                !.sync_id = Len(sync_log) + 1,
                                !.to_check = platforms_to_check(platform, clients)]]
    /\ UNCHANGED <<orders, listings, get_orders_calls, notified>>
    /\ OrdersUnchanged

\* process: client.get_orders(since) answers with a feed or raises
GetOrders(r) ==
    /\ runs[r].pc = "get_orders"
    /\ get_orders_calls' =
          get_orders_calls \cup {[run |-> r, client |-> Head(runs[r].to_check)]}
    /\ \E answer \in GetOrdersAnswers :
          runs' = [runs EXCEPT ![r] =
              IF answer = None THEN PlatformFailed(@, "get_orders")
              ELSE [@ EXCEPT !.feed = Val(answer), !.pc = "check"]]
    /\ UNCHANGED <<orders, listings, sync_log, notified>>
    /\ OrdersUnchanged

\* _process_single_order: the order is skipped when its row exists
CheckExisting(r) ==
    /\ runs[r].pc = "check"
    /\ runs' = [runs EXCEPT ![r] =
          IF get_order_by_platform_id(orders, Head(@.to_check),
                                      Head(@.feed).platform_order_id) # None
          THEN NextOrder(@)
          ELSE [@ EXCEPT !.pc = "lookup"]]
    /\ UNCHANGED <<orders, listings, sync_log, get_orders_calls, notified>>
    /\ OrdersUnchanged

\* _process_single_order: the listing and the product are read, the profit
\* is computed; calculate_profit raises TypeError on a NULL wholesale price
LookupListing(r) ==
    /\ runs[r].pc = "lookup"
    /\ LET listing == ListingOfItems(listings, Head(runs[r].to_check),
                                     Head(runs[r].feed).items)
           product_row == IF listing = None \/ Val(listing).product_id = None
                          THEN None
                          ELSE get_product(products, Val(Val(listing).product_id))
       IN  runs' = [runs EXCEPT ![r] =
              IF product_row # None /\ Val(product_row).wholesale_price_jpy = None
              THEN PlatformFailed(@, "TypeError")
              ELSE [@ EXCEPT !.listing = listing, !.product = product_row,
                             !.pc = "create"]]
    /\ UNCHANGED <<orders, listings, sync_log, get_orders_calls, notified>>
    /\ OrdersUnchanged

\* _process_single_order: Database.create_order
CreateOrder(r) ==
    /\ runs[r].pc = "create"
    /\ orders' = Append(orders,
          OrderRecord(runs[r], Head(runs[r].feed), Head(runs[r].to_check)))
    /\ runs' = [runs EXCEPT ![r].pc = "update"]
    /\ UNCHANGED <<listings, sync_log, get_orders_calls, notified>>
    /\ OrdersUnchanged

\* _process_single_order: the sales counter, the totals and the notification
UpdateSales(r) ==
    /\ runs[r].pc = "update"
    /\ listings' =
          IF runs[r].listing = None THEN listings
          ELSE update_listing_sales(listings, Val(runs[r].listing).id,
                                    SalesAfterOrder(Val(runs[r].listing)))
    /\ notified' = Append(notified,
          [platform |-> Head(runs[r].to_check),
           platform_order_id |-> Head(runs[r].feed).platform_order_id])
    /\ runs' = [runs EXCEPT ![r] =
          NextOrder([@ EXCEPT
              !.results.new_orders = @ + 1,
              !.results.total_revenue_usd = @ + Head(runs[r].feed).sale_price_usd,
              !.results.total_profit_usd =
                  @ + ProfitOfOrder(runs[r].product, Head(runs[r].feed),
                                    Head(runs[r].to_check))])]
    /\ UNCHANGED <<orders, sync_log, get_orders_calls>>
    /\ OrdersUnchanged

\* process: complete_sync_log(success=True) and the return of the results
CompleteProcess(r) ==
    /\ runs[r].pc = "complete"
    /\ sync_log' = [sync_log EXCEPT ![runs[r].sync_id] =
          [@ EXCEPT !.status = "completed",
                    !.items_checked = runs[r].results.new_orders,
                    !.items_changed = runs[r].results.new_orders]]
    /\ runs' = [runs EXCEPT ![r].pc = "done"]
    /\ UNCHANGED <<orders, listings, get_orders_calls, notified>>
    /\ OrdersUnchanged

\* a database call of _process_single_order raises (sqlite3.OperationalError:
\* the database is locked, the disk is full): its transaction is rolled back
\* and the exception ends the feed of the client
DatabaseRaises(r) ==
    /\ \/ runs[r].pc \in {"check", "lookup", "create"}
       \/ runs[r].pc = "update" /\ runs[r].listing # None
    /\ runs' = [runs EXCEPT ![r] = PlatformFailed(@, "database")]
    /\ UNCHANGED <<orders, listings, sync_log, get_orders_calls, notified>>
    /\ OrdersUnchanged

\* the cron job of every five minutes: one call of process() after the other
NextOrders ==
    \E r \in Runs :
        /\ Alone(r)
        /\ \/ ProcessStart(r)
           \/ GetOrders(r)
           \/ CheckExisting(r)
           \/ LookupListing(r)
           \/ CreateOrder(r)
           \/ UpdateSales(r)
           \/ CompleteProcess(r)

SpecOrders == InitOrders /\ [][NextOrders]_vars

\* two cron invocations against the same database: calls of process() overlap,
\* every database call and every client call is one step
NextOrdersOverlapping ==
    \E r \in Runs :
        \/ ProcessStart(r)
        \/ GetOrders(r)
        \/ CheckExisting(r)
        \/ LookupListing(r)
        \/ CreateOrder(r)
        \/ UpdateSales(r)
        \/ CompleteProcess(r)

SpecOrdersOverlapping == InitOrders /\ [][NextOrdersOverlapping]_vars

\* sequential calls of process() in which a database call of
\* _process_single_order may raise
NextOrdersFailing ==
    \E r \in Runs :
        /\ Alone(r)
        /\ \/ ProcessStart(r)
           \/ GetOrders(r)
           \/ CheckExisting(r)
           \/ LookupListing(r)
           \/ CreateOrder(r)
           \/ UpdateSales(r)
           \/ CompleteProcess(r)
           \/ DatabaseRaises(r)

SpecOrdersFailing == InitOrders /\ [][NextOrdersFailing]_vars

\* ------------------------------------------------------------ inventory sync
(***************************************************************************)
(* InventorySyncEngine.sync, one step per database query and one step per  *)
(* listing it checks.  sync_run is the local state of the call under way   *)
(* (or of the last one): the cron job starts sync() again once it has      *)
(* returned or raised.  A marketplace call returns ("ok") or raises        *)
(* ("raise"); a listing query returns its rows or raises.                  *)
(***************************************************************************)
MaxSyncs == 2
DEFAULT_LIMIT == 50

IdleSync ==
    [pc |-> "idle", platform |-> None, sync_id |-> 0,
     results |-> [items_checked |-> 0, items_changed |-> 0, deactivated |-> <<>>,
                  reactivated |-> <<>>, errors |-> <<>>],
     todo |-> <<>>]

\* self.clients.get(platform)
HasClient(platform) == \E i \in DOMAIN clients : clients[i] = platform

\* Database.get_active_listings_with_products: the active listings that have
\* a product, each with its product's stock_status and name
get_active_listings_with_products(rows, product_rows, platform) ==
    LET joined(i) ==
            [id |-> rows[i].id, platform |-> rows[i].platform,
             platform_listing_id |-> rows[i].platform_listing_id,
             stock_status |-> product_rows[Val(rows[i].product_id)].stock_status]
        hit(i) == /\ rows[i].status = "active"
                  /\ rows[i].product_id # None
                  /\ Val(rows[i].product_id) \in DOMAIN product_rows
                  /\ platform = None \/ rows[i].platform = Val(platform)
        RECURSIVE scan(_)
        scan(i) == IF i > Len(rows) THEN <<>>
                   ELSE (IF hit(i) THEN <<joined(i)>> ELSE <<>>) \o scan(i + 1)
    IN  scan(1)

\* ORDER BY updated_at DESC
RECURSIVE NewestFirst(_, _)
NewestFirst(rows, ids) ==
    IF ids = {} THEN <<>>
    ELSE LET i == CHOOSE i \in ids :
                     \A j \in ids : rows[j].updated_at <= rows[i].updated_at
         IN  <<rows[i]>> \o NewestFirst(rows, ids \ {i})

\* Database.get_listings(platform, status, limit): the newest rows, up to limit
get_listings(rows, platform, status, limit) ==
    LET hits == {i \in DOMAIN rows :
                    /\ platform = None \/ rows[i].platform = Val(platform)
                    /\ rows[i].status = status}
        found == NewestFirst(rows, hits)
    IN  SubSeq(found, 1, IF Len(found) < limit THEN Len(found) ELSE limit)

\* Database.update_listing(listing_id, {"status": status})
update_listing_status(rows, listing_id, status) ==
    [rows EXCEPT ![listing_id].status = status,
                 ![listing_id].updated_at = UpdatedAt(rows)]

\* the mutant pauses sold-out products only, not discontinued ones
OutOfStockOnly(stock_status) == stock_status = "out_of_stock"

\* _check_and_sync: stock_status in ("out_of_stock", "discontinued")
OutOfStock(stock_status) == stock_status \in {"out_of_stock", "discontinued"}

\* the mutant writes the new status whether or not the marketplace call returned
StatusWritten(outcome) == TRUE

\* _check_and_sync, _check_reactivation: update_listing comes after the
\* marketplace call, so it is reached only when the call returned
StatusWrittenAfterCall(outcome) == outcome = "ok"

\* what one listing's check leaves behind; st holds listings, results, calls
ListingChecked(st, listing, op, status, changed, outcome) ==
    LET call == [op |-> op, platform |-> listing.platform,
                 platform_listing_id |-> Val(listing.platform_listing_id),
                 raised |-> outcome # "ok"]
        written == StatusWrittenAfterCall(outcome)
    IN  [listings |-> IF written
                      THEN update_listing_status(st.listings, listing.id, status)
                      ELSE st.listings,
         calls |-> Append(st.calls, call),
         results |->
            IF outcome = "ok"
            THEN [st.results EXCEPT !.items_changed = @ + 1,
                                    ![changed] = Append(@, listing.id)]
            ELSE [st.results EXCEPT !.errors = Append(@, [op |-> op, listing |-> listing.id])]]

\* _check_and_sync(listing, results), listing a row of the joined query
check_and_sync(st, listing, outcome) ==
    IF listing.platform_listing_id = None \/ ~HasClient(listing.platform) THEN st
    ELSE IF OutOfStock(listing.stock_status)
         THEN ListingChecked(st, listing, "deactivate_listing", "paused",
                             "deactivated", outcome)
         ELSE st

\* _check_reactivation(listing, results), listing a row of get_listings
check_reactivation(st, product_rows, listing, outcome) ==
    IF \/ listing.product_id = None
       \/ get_product(product_rows, Val(listing.product_id)) = None
       \/ listing.platform_listing_id = None
       \/ ~HasClient(listing.platform)
    THEN st
    ELSE IF Val(get_product(product_rows, Val(listing.product_id))).stock_status = "in_stock"
         THEN ListingChecked(st, listing, "activate_listing", "active",
                             "reactivated", outcome)
         ELSE st

\* does the check of this listing call the marketplace?
CallsClient(st, next) == Len(next.calls) > Len(st.calls)

\* the tables sync() works on: listings of both marketplaces, active and
\* paused, one of them without a platform listing id
SyncListings ==
    <<JobListing(1, Some(1), "ebay", Some(<<"L", 1>>), "active", 0, 1),
      JobListing(2, Some(2), "etsy", Some(<<"L", 2>>), "active", 0, 2),
      JobListing(3, Some(3), "ebay", Some(<<"L", 3>>), "paused", 0, 3),
      JobListing(4, Some(2), "ebay", None, "active", 0, 4)>>
SyncProducts ==
    {<<JobProduct(Some(300), s1), JobProduct(Some(300), s2), JobProduct(Some(300), s3)>> :
        s1 \in {"in_stock", "out_of_stock"}, s2 \in {"in_stock", "discontinued"},
        s3 \in {"in_stock", "out_of_stock"}}

\* a backlog of paused listings: the oldest is back in stock, DEFAULT_LIMIT
\* newer ones are still sold out
BacklogListings ==
    [i \in 1..(DEFAULT_LIMIT + 1) |->
        JobListing(i, Some(IF i = 1 THEN 1 ELSE 2), "ebay", Some(<<"B", i>>),
                   "paused", 0, i)]
BacklogProducts ==
    <<JobProduct(Some(300), "in_stock"), JobProduct(Some(300), "out_of_stock")>>

SyncTables ==
    {[listings |-> SyncListings, products |-> p] : p \in SyncProducts}
SyncTablesWithBacklog ==
    SyncTables \cup {[listings |-> BacklogListings, products |-> BacklogProducts]}

OrdersOff ==
    /\ orders = <<>>
    /\ runs = [r \in Runs |-> [pc |-> "off"]]
    /\ get_orders_calls = {}
    /\ notified = <<>>

InitSyncOn(tables) ==
    /\ clients \in ClientSets
    /\ \E t \in tables : listings = t.listings /\ products = t.products
    /\ sync_log = <<>>
    /\ sync_run = IdleSync
    /\ platform_calls = <<>>
    /\ OrdersOff
    /\ upserted = None /\ fetched = None /\ profit_call = None
    /\ create_listing_calls = <<>> /\ response = <<>>
    /\ ShippingIdle /\ ProfitIdle /\ SuggestIdle /\ KeywordsIdle /\ BanIdle
    /\ TokenIdle

InitSync == InitSyncOn(SyncTablesWithBacklog)

SyncUnchanged ==
    UNCHANGED <<clients, products, upserted, fetched, profit_call,
                create_listing_calls, response, orders, runs, get_orders_calls,
                notified, ShippingVars, ProfitVars, SuggestVars, KeywordsVars,
                BanVars, TokenVars>>

\* the mutant re-raises without completing the sync_log row
SyncRaisedOnly ==
    /\ sync_log' = sync_log
    /\ sync_run' = [sync_run EXCEPT !.pc = "raised", !.todo = <<>>]

\* sync: the except branch, complete_sync_log(success=False) and raise
SyncFailed ==
    /\ sync_log' = [sync_log EXCEPT ![sync_run.sync_id] =
          [@ EXCEPT !.status = "failed",
                    !.items_checked = sync_run.results.items_checked,
                    !.items_changed = sync_run.results.items_changed]]
    /\ sync_run' = [sync_run EXCEPT !.pc = "raised", !.todo = <<>>]

\* sync(platform): create_sync_log
SyncStart ==
    /\ sync_run.pc \in {"idle", "done", "raised"}
    /\ Len(sync_log) < MaxSyncs
    /\ \E platform \in PlatformArgs :
          /\ sync_log' = Append(sync_log,
                [sync_type |-> "inventory",
                 platform |-> IF platform = None THEN "all" ELSE Val(platform),
                 status |-> "running", items_checked |-> 0, items_changed |-> 0])
          /\ sync_run' = [IdleSync EXCEPT !.pc = "active_listings",
                                          !.platform = platform,
                                          !.sync_id = Len(sync_log) + 1]
    /\ UNCHANGED <<listings, platform_calls>>
    /\ SyncUnchanged

\* sync: get_active_listings_with_products(platform) returns or raises
GetActiveListings ==
    /\ sync_run.pc = "active_listings"
    /\ \/ LET found == get_active_listings_with_products(
                           listings, products, sync_run.platform)
          IN  /\ sync_run' =
                    [sync_run EXCEPT
                        !.todo = found,
                        !.results.items_checked = Len(found),
                        !.pc = IF found = <<>> THEN "paused_listings"
                               ELSE "check_and_sync"]
              /\ UNCHANGED sync_log
       \/ SyncFailed
    /\ UNCHANGED <<listings, platform_calls>>
    /\ SyncUnchanged

\* sync: _check_and_sync for the next active listing, inside try/except
CheckAndSync ==
    /\ sync_run.pc = "check_and_sync"
    /\ LET st == [listings |-> listings, results |-> sync_run.results,
                  calls |-> platform_calls]
           listing == Head(sync_run.todo)
       IN  \E outcome \in {"ok", "raise"} :
              LET next == check_and_sync(st, listing, outcome)
              IN  /\ outcome = "raise" => CallsClient(st, next)
                  /\ listings' = next.listings
                  /\ platform_calls' = next.calls
                  /\ sync_run' =
                        [sync_run EXCEPT
                            !.results = next.results,
                            !.todo = Tail(@),
                            !.pc = IF Tail(sync_run.todo) = <<>>
                                   THEN "paused_listings" ELSE @]
    /\ UNCHANGED sync_log
    /\ SyncUnchanged

\* sync: get_listings(status="paused", platform=platform) returns or raises
GetPausedListings ==
    /\ sync_run.pc = "paused_listings"
    /\ \/ LET found == get_listings(listings, sync_run.platform, "paused",
                                    DEFAULT_LIMIT)
          IN  /\ sync_run' =
                    [sync_run EXCEPT
                        !.todo = found,
                        !.pc = IF found = <<>> THEN "complete"
                               ELSE "check_reactivation"]
              /\ UNCHANGED sync_log
       \/ SyncFailed
    /\ UNCHANGED <<listings, platform_calls>>
    /\ SyncUnchanged

\* sync: _check_reactivation for the next paused listing, inside try/except
CheckReactivation ==
    /\ sync_run.pc = "check_reactivation"
    /\ LET st == [listings |-> listings, results |-> sync_run.results,
                  calls |-> platform_calls]
           listing == Head(sync_run.todo)
       IN  \E outcome \in {"ok", "raise"} :
              LET next == check_reactivation(st, products, listing, outcome)
              IN  /\ outcome = "raise" => CallsClient(st, next)
                  /\ listings' = next.listings
                  /\ platform_calls' = next.calls
                  /\ sync_run' =
                        [sync_run EXCEPT
                            !.results = next.results,
                            !.todo = Tail(@),
                            !.pc = IF Tail(sync_run.todo) = <<>>
                                   THEN "complete" ELSE @]
    /\ UNCHANGED sync_log
    /\ SyncUnchanged

\* sync: complete_sync_log(success=True), the notification and the return
CompleteSync ==
    /\ sync_run.pc = "complete"
    /\ sync_log' = [sync_log EXCEPT ![sync_run.sync_id] =
          [@ EXCEPT !.status = "completed",
                    !.items_checked = sync_run.results.items_checked,
                    !.items_changed = sync_run.results.items_changed]]
    /\ sync_run' = [sync_run EXCEPT !.pc = "done"]
    /\ UNCHANGED <<listings, platform_calls>>
    /\ SyncUnchanged

NextSync ==
    \/ SyncStart
    \/ GetActiveListings
    \/ CheckAndSync
    \/ GetPausedListings
    \/ CheckReactivation
    \/ CompleteSync

SpecSync == InitSync /\ [][NextSync]_vars

\* both cron jobs, each on its own database: a behaviour is a sequence of
\* process() calls or a sequence of sync() calls
InitJobs == InitOrders \/ InitSync
NextJobs == NextOrdersFailing \/ NextSync
SpecJobs == InitJobs /\ [][NextJobs]_vars

\* --------------------------------------------------------------- OAuth tokens
(***************************************************************************)
(* OAuthTokenManager.get_valid_token.  A token dict is a record whose      *)
(* optional keys are None when absent; access and refresh tokens are       *)
(* <<"A", t>> and <<"R", t>>, t the time of issue (-1: taken from the      *)
(* environment).  The token endpoint answers a refresh with a token dict   *)
(* or the request raises.                                                  *)
(***************************************************************************)
EXPIRY_BUFFER == 60

TokenData(access_token, refresh_token, expires_in, expires_at) ==
    [access_token |-> access_token, refresh_token |-> refresh_token,
     expires_in |-> expires_in, expires_at |-> expires_at,
     platform |-> None, saved_at |-> None]

\* save_token: the dict as it is written to the token file
save_token(token_data, platform, now) ==
    [token_data EXCEPT
        !.expires_at = IF token_data.expires_in # None /\ token_data.expires_at = None
                       THEN Some(now + Val(token_data.expires_in))
                       ELSE @,
        !.platform = Some(platform),
        !.saved_at = Some(now)]

\* the mutant compares with expires_at itself, without the buffer
is_token_expiredAtExpiry(token_data, now) ==
    \/ token_data = None
    \/ now >= (IF Val(token_data).expires_at = None THEN 0
               ELSE Val(Val(token_data).expires_at))

\* is_token_expired(token_data) at time.time() = now
is_token_expired(token_data, now) ==
    \/ token_data = None
    \/ now >= (IF Val(token_data).expires_at = None THEN 0
               ELSE Val(Val(token_data).expires_at)) - EXPIRY_BUFFER

\* _bootstrap_base_from_env: the token dict built from BASE_ACCESS_TOKEN and
\* BASE_REFRESH_TOKEN (environ: both are set), saved, or None
bootstrap_base_from_env(environ, now) ==
    IF ~environ THEN None
    ELSE Some(save_token(TokenData(<<"A", -1>>, Some(<<"R", -1>>), None, Some(0)),
                         "base", now))

\* refresh_token(token_data): the new token dict it saves and returns, or the
\* exception it raises; answer is what the token endpoint does
refresh_token(token_data, platform, now, answer) ==
    IF token_data.refresh_token = None
    THEN [raised |-> Some("ValueError"), sent |-> None, token |-> None]
    ELSE IF answer.error # None
    THEN [raised |-> answer.error, sent |-> token_data.refresh_token, token |-> None]
    ELSE LET new_token ==
                 IF Val(answer.token).refresh_token = None
                 THEN [Val(answer.token) EXCEPT !.refresh_token = token_data.refresh_token]
                 ELSE Val(answer.token)
         IN  [raised |-> None, sent |-> token_data.refresh_token,
              token |-> Some(save_token(new_token, platform, now))]

\* get_valid_token(): the token file afterwards and what the caller gets
get_valid_token(file, platform, environ, now, answer) ==
    LET bootstrapped == IF file = None /\ platform = "base"
                        THEN bootstrap_base_from_env(environ, now)
                        ELSE file
    IN  IF bootstrapped = None
        THEN [file |-> file,
              result |-> [raised |-> Some("ValueError"), value |-> None, sent |-> None]]
        ELSE IF ~is_token_expired(bootstrapped, now)
        THEN [file |-> bootstrapped,
              result |-> [raised |-> None, value |-> Some(Val(bootstrapped).access_token),
                          sent |-> None]]
        ELSE LET refreshed == refresh_token(Val(bootstrapped), platform, now, answer)
             IN  IF refreshed.raised # None
                 THEN [file |-> bootstrapped,
                       result |-> [raised |-> refreshed.raised, value |-> None,
                                   sent |-> refreshed.sent]]
                 ELSE [file |-> refreshed.token,
                       result |-> [raised |-> None,
                                   value |-> Some(Val(refreshed.token).access_token),
                                   sent |-> refreshed.sent]]

OAuthPlatforms == {"ebay", "etsy", "base"}
Times == {900, 939, 940, 1000, 9000}
StoredTokens ==
    {TokenData(<<"A", 0>>, refresh, None, expires_at) :
        refresh \in {None, Some(<<"R", 0>>)}, expires_at \in {None, Some(1000)}}
RefreshAnswers(now) ==
    {[error |-> Some(e), token |-> None] : e \in {"ValueError", "HTTPStatusError"}}
    \cup {[error |-> None,
           token |-> Some(TokenData(<<"A", now>>, refresh, expires_in, None))] :
             refresh \in {None, Some(<<"R", now>>)}, expires_in \in {None, Some(7200)}}

InitToken ==
    /\ oauth \in [platform : OAuthPlatforms, environ : BOOLEAN]
    /\ token_file \in
          {None} \cup {Some(save_token(t, oauth.platform, 0)) : t \in StoredTokens}
    /\ clock \in Times
    /\ token_result = None
    /\ ShippingIdle /\ ProfitIdle /\ SuggestIdle /\ KeywordsIdle /\ BanIdle
    /\ StoreIdle /\ ListingIdle /\ JobIdle

\* a call of get_valid_token()
GetValidToken ==
    /\ token_result = None
    /\ \E answer \in RefreshAnswers(clock) :
          LET out == get_valid_token(token_file, oauth.platform, oauth.environ,
                                     clock, answer)
          IN  /\ token_file' = out.file
              /\ token_result' = Some(out.result)
    /\ UNCHANGED <<oauth, clock, ShippingVars, ProfitVars, SuggestVars, KeywordsVars,
                   BanVars, StoreVars, ListingVars, JobVars>>

\* time passes until the next call
Tick ==
    /\ token_result # None
    /\ \E later \in Times : later > clock /\ clock' = later
    /\ token_result' = None
    /\ UNCHANGED <<oauth, token_file, ShippingVars, ProfitVars, SuggestVars,
                   KeywordsVars, BanVars, StoreVars, ListingVars, JobVars>>

NextToken == GetValidToken \/ Tick

SpecToken == InitToken /\ [][NextToken]_vars

\* ------------------------------------------------------------------ claims
\* Definitions the properties are stated with, written apart from the operators
\* above: the product text, occurrence of a phrase ignoring case, issue types.

\* the name and description fields that are present and non-empty, in the order
\* name_ja, name_en, description_ja, description_en, separated by one space
RECURSIVE SpacedText(_)
SpacedText(fields) ==
    IF fields = <<>> THEN <<>>
    ELSE LET rest == SpacedText(Tail(fields))
             f == Head(fields)
         IN  IF f = None \/ f = Some(<<>>) THEN rest
             ELSE IF rest = <<>> THEN Val(f)
             ELSE Val(f) \o <<" ">> \o rest

ProductText(p) == SpacedText(<<p.name_ja, p.name_en, p.description_ja, p.description_en>>)

CasePairs ==
    {<<"A", "a">>, <<"B", "b">>, <<"C", "c">>, <<"D", "d">>, <<"E", "e">>, <<"F", "f">>,
     <<"G", "g">>, <<"H", "h">>, <<"I", "i">>, <<"J", "j">>, <<"K", "k">>, <<"L", "l">>,
     <<"M", "m">>, <<"N", "n">>, <<"O", "o">>, <<"P", "p">>, <<"Q", "q">>, <<"R", "r">>,
     <<"S", "s">>, <<"T", "t">>, <<"U", "u">>, <<"V", "v">>, <<"W", "w">>, <<"X", "x">>,
     <<"Y", "y">>, <<"Z", "z">>}

SameLetter(a, b) == a = b \/ <<a, b>> \in CasePairs \/ <<b, a>> \in CasePairs

OccursIgnoringCase(phrase, t) ==
    \E off \in 0..(Len(t) - Len(phrase)) :
        \A j \in 1..Len(phrase) : SameLetter(t[off + j], phrase[j])

IssuesOfType(v, type) == SelectSeq(v.issues, LAMBDA i : i.type = type)
HasIssue(v, type) == \E i \in 1..Len(v.issues) : v.issues[i].type = type
Severities(v) == {v.issues[i].severity : i \in 1..Len(v.issues)}

\* C1: the risk level of a verdict is "none" without issues, else "high" if an
\* issue is of severity "high", else "medium" if one is of severity "medium",
\* else "low"; safe holds exactly for "none" and "low", so a verdict with a
\* medium or high issue (a low_margin issue included) is unsafe.
C1_RiskLevelAggregation ==
    verdict # None =>
        LET v == Val(verdict)
        IN  /\ (v.risk_level = "none") <=> (v.issues = <<>>)
            /\ (v.risk_level = "high") <=> ("high" \in Severities(v))
            /\ (v.risk_level = "medium") <=>
                   ("high" \notin Severities(v) /\ "medium" \in Severities(v))
            /\ (v.risk_level = "low") <=>
                   (v.issues # <<>> /\ Severities(v) \cap {"high", "medium"} = {})
            /\ v.safe <=> v.risk_level \in {"none", "low"}
            /\ HasIssue(v, "low_margin") => ~v.safe

\* a verdict whose only issue is low_margin: medium and unsafe
C1_Witness ==
    /\ verdict # None
    /\ Len(Val(verdict).issues) = 1
    /\ HasIssue(Val(verdict), "low_margin")
    /\ Val(verdict).risk_level = "medium"
    /\ ~Val(verdict).safe

\* C2: the verdict holds the findings of all four checks: issues of a type are
\* present exactly when that check alone finds something, whatever the other
\* checks find; a product with a deny-listed brand, a restricted category and a
\* prohibited keyword has issues of the three types and risk level "high".
C2_BrandFinds(p) ==
    LET t == ProductText(p)
    IN  \E i \in 1..Len(brand_blacklist) :
            OccursIgnoringCase(brand_blacklist[i].brand_name, t)
C2_CountryFinds(p) ==
    /\ p.category \notin {None, Some("")}
    /\ \E i \in 1..Len(country_restrictions) :
          country_restrictions[i].category = Val(p.category)
C2_KeywordFinds(p) ==
    LET t == ProductText(p)
    IN  \E i \in 1..Len(PROHIBITED_KEYWORDS) :
            OccursIgnoringCase(PROHIBITED_KEYWORDS[i], t)

C2_ChecksAreIndependent ==
    verdict # None =>
        LET v == Val(verdict)
            p == Val(product)
        IN  /\ HasIssue(v, "brand_blacklist") <=> C2_BrandFinds(p)
            /\ HasIssue(v, "country_restriction") <=> C2_CountryFinds(p)
            /\ HasIssue(v, "prohibited_keyword") <=> C2_KeywordFinds(p)
            /\ HasIssue(v, "low_margin") <=> MarginIssues(p, sale_price_usd) # <<>>
            /\ (C2_BrandFinds(p) /\ C2_CountryFinds(p) /\ C2_KeywordFinds(p)) =>
                   /\ HasIssue(v, "brand_blacklist")
                   /\ HasIssue(v, "country_restriction")
                   /\ HasIssue(v, "prohibited_keyword")
                   /\ v.risk_level = "high"

\* the verdict of "SHUN replica" in category knife
C2_Witness ==
    /\ verdict # None
    /\ Val(product).name_ja = Some(<<"S", "H", "U", "N", " ", "r", "e", "p", "l", "i", "c", "a">>)
    /\ Val(product).category = Some("knife")
    /\ HasIssue(Val(verdict), "brand_blacklist")
    /\ HasIssue(Val(verdict), "country_restriction")
    /\ HasIssue(Val(verdict), "prohibited_keyword")
    /\ Val(verdict).risk_level = "high"

\* C3: excluded_countries is sorted and without duplicates, and holds exactly the
\* country codes the table lists for the product's category; it is empty when
\* the product has no category or the category has no restriction.
C3_CodesOfCategory(p) ==
    IF p.category \in {None, Some("")} THEN {}
    ELSE {country_restrictions[i].country_code :
            i \in {j \in 1..Len(country_restrictions) :
                     country_restrictions[j].category = Val(p.category)}}

C3_ExcludedCountries ==
    verdict # None =>
        LET ex == Val(verdict).excluded_countries
        IN  /\ \A i \in 1..(Len(ex) - 1) : StrLess(ex[i], ex[i + 1])
            /\ {ex[i] : i \in 1..Len(ex)} = C3_CodesOfCategory(Val(product))

\* a knife against the table with more rows: AU, GB, IE and not the sword's US
C3_Witness ==
    /\ verdict # None
    /\ Val(product).category = Some("knife")
    /\ country_restrictions = MoreRestrictions
    /\ Val(verdict).excluded_countries = <<<<"A", "U">>, <<"G", "B">>, <<"I", "E">>>>

\* C4: excluded_countries does not depend on the safety verdict and a listing
\* can be safe-but-restricted: a verdict whose only findings are country
\* restrictions is safe and carries the excluded countries.
C4_SafeButRestricted ==
    (/\ verdict # None
     /\ Val(verdict).issues # <<>>
     /\ \A i \in 1..Len(Val(verdict).issues) :
            Val(verdict).issues[i].type = "country_restriction")
    => (Val(verdict).safe /\ Val(verdict).excluded_countries # <<>>)

\* what the code does instead: a verdict with an excluded country is never safe
C4_RestrictedIsNeverSafe ==
    (verdict # None /\ Val(verdict).excluded_countries # <<>>) => ~Val(verdict).safe

\* C5: every deny-list row whose brand name occurs, ignoring case, in the
\* product text contributes one brand_blacklist issue with the row's risk level
\* as severity (in row order, and no other brand_blacklist issue); a match of a
\* high-risk brand makes the verdict unsafe with risk level "high".
C5_BrandMatches ==
    verdict # None =>
        LET v == Val(verdict)
            t == ProductText(Val(product))
            matching == SelectSeq(brand_blacklist,
                                  LAMBDA b : OccursIgnoringCase(b.brand_name, t))
            found == IssuesOfType(v, "brand_blacklist")
        IN  /\ Len(found) = Len(matching)
            /\ \A i \in 1..Len(matching) :
                  /\ found[i].detail.brand_name = matching[i].brand_name
                  /\ found[i].severity = matching[i].risk_level
            /\ (\E i \in 1..Len(matching) : matching[i].risk_level = "high")
                  => (~v.safe /\ v.risk_level = "high")

\* "<<"S", "h", "u", "n">> replica" against the row "Shun": one high brand issue, unsafe
C5_Witness ==
    /\ verdict # None
    /\ Val(product).name_ja = Some(<<"S", "H", "U", "N", " ", "r", "e", "p", "l", "i", "c", "a">>)
    /\ \E i \in 1..Len(Val(verdict).issues) :
          /\ Val(verdict).issues[i].type = "brand_blacklist"
          /\ Val(verdict).issues[i].detail.brand_name = <<"S", "h", "u", "n">>
          /\ Val(verdict).issues[i].severity = "high"
    /\ ~Val(verdict).safe
    /\ Val(verdict).risk_level = "high"

\* C6 as stated: a low_margin issue is present exactly when a sale price is
\* given, the product has a wholesale cost and calculate_profit for them is not
\* profitable.
C6_LowMargin(v) == Len(IssuesOfType(v, "low_margin"))

C6_MarginCheckWhenBothPresent ==
    verdict # None =>
        LET p == Val(product)
        IN  (C6_LowMargin(Val(verdict)) > 0) <=>
                /\ sale_price_usd # None
                /\ p.wholesale_price_jpy # None
                /\ ~calculate_profit(Val(p.wholesale_price_jpy), Val(sale_price_usd),
                                     p.weight_g, None, "ebay").profitable

\* C6 as amended: ... the product has a wholesale cost other than 0 ...; the
\* issue is of severity "medium", there is at most one, and none without a
\* sale price.
C6_MarginCheckWhenBothPresentAndNonZero ==
    verdict # None =>
        LET p == Val(product)
            v == Val(verdict)
            found == IssuesOfType(v, "low_margin")
        IN  /\ (Len(found) > 0) <=>
                  /\ sale_price_usd # None
                  /\ p.wholesale_price_jpy # None
                  /\ Val(p.wholesale_price_jpy) # 0
                  /\ ~calculate_profit(Val(p.wholesale_price_jpy), Val(sale_price_usd),
                                       p.weight_g, None, "ebay").profitable
            /\ Len(found) <= 1
            /\ \A i \in 1..Len(found) : found[i].severity = "medium"
            /\ sale_price_usd = None => Len(found) = 0

\* 400 JPY sold for $15.00 at 300 g (EMS, $24.00): not profitable, low_margin
C6_Witness ==
    /\ verdict # None
    /\ sale_price_usd = Some(1500)
    /\ Val(product).wholesale_price_jpy = Some(400)
    /\ Val(product).weight_g = Some(300)
    /\ HasIssue(Val(verdict), "low_margin")

\* C7 as stated: a hit is "high" when its phrase is one of the drop-shipping
\* terms (dropship, dropshipping, drop ship, wholesale, bulk order) or of the
\* replica/counterfeit terms (replica, counterfeit, fake, knockoff, imitation,
\* bootleg) of the deny-list, and "medium" for the remaining phrases.
C7_SeverityByTermGroup ==
    keyword_hits # None =>
        \A i \in 1..Len(Val(keyword_hits)) :
            Val(keyword_hits)[i].severity =
                IF \E k \in 1..11 : PROHIBITED_KEYWORDS[k] = Val(keyword_hits)[i].keyword
                THEN "high" ELSE "medium"

\* C7 as amended: a hit is "high" exactly when its phrase is one of replica,
\* counterfeit, fake, dropship, dropshipping, and "medium" for every other
\* phrase of the deny-list; the severity depends only on the phrase.
C7_SeverityByPhrase ==
    keyword_hits # None =>
        \A i \in 1..Len(Val(keyword_hits)) :
            LET hit == Val(keyword_hits)[i]
            IN  /\ hit.severity \in {"high", "medium"}
                /\ hit.severity = "high" <=>
                       hit.keyword \in {<<"r", "e", "p", "l", "i", "c", "a">>, <<"c", "o", "u", "n", "t", "e", "r", "f", "e", "i", "t">>, <<"f", "a", "k", "e">>, <<"d", "r", "o", "p", "s", "h", "i", "p">>, <<"d", "r", "o", "p", "s", "h", "i", "p", "p", "i", "n", "g">>}

\* a text with a high hit and a medium hit on a counterfeit term (knockoff)
C7_Witness ==
    /\ keyword_hits # None
    /\ \E i, j \in 1..Len(Val(keyword_hits)) :
          /\ Val(keyword_hits)[i].severity = "high"
          /\ Val(keyword_hits)[j].keyword = <<"k", "n", "o", "c", "k", "o", "f", "f">>
          /\ Val(keyword_hits)[j].severity = "medium"

\* C8: the hits are, in deny-list order, exactly the deny-list phrases that
\* occur in the text ignoring case, one entry for each; empty or null text
\* gives the empty list.
C8_HitsAreTheOccurringPhrases ==
    keyword_hits # None =>
        LET hits == Val(keyword_hits)
            occurring ==
                IF text = None THEN <<>>
                ELSE SelectSeq(PROHIBITED_KEYWORDS,
                               LAMBDA k : OccursIgnoringCase(k, Val(text)))
        IN  /\ Len(hits) = Len(occurring)
            /\ \A i \in 1..Len(hits) : hits[i].keyword = occurring[i]
            /\ (text = None \/ text = Some(<<>>)) => hits = <<>>

\* a text in another case than the deny-list's with two or more phrases in it
C8_Witness ==
    /\ keyword_hits # None
    /\ text # None
    /\ Len(Val(keyword_hits)) >= 2
    /\ lower(Val(text)) # Val(text)

\* C8, null and empty text answered
C8_WitnessEmpty ==
    keyword_hits = Some(<<>>) /\ text \in {None, Some(<<>>)}

\* C9: estimate_shipping answers by weight range: w <= 50 or no weight, 580 JPY
\* / 3.87 USD (ePacket Lite); 50 < w <= 300, EMS at 3600 JPY / 24.00 USD;
\* 300 < w <= 2000, EMS at 5000 JPY / 33.33 USD; w > 2000, 8000 JPY and its
\* conversion at 150 JPY/USD rounded to the cent, under a method label that no
\* tier of the table has.
C9_TierMethods == {SHIPPING_TABLE[i].method : i \in 1..Len(SHIPPING_TABLE)}

C9_ShippingTiers ==
    shipping # None =>
        LET s == Val(shipping)
            w == weight_arg
        IN  /\ (w = None \/ (w # None /\ Val(w) <= 50)) =>
                  /\ s.cost_jpy = 580 /\ s.cost_usd = 387
                  /\ w # None => s.method = "ePacket Lite"
            /\ (w # None /\ 50 < Val(w) /\ Val(w) <= 300) =>
                  s.method = "EMS" /\ s.cost_jpy = 3600 /\ s.cost_usd = 2400
            /\ (w # None /\ 300 < Val(w) /\ Val(w) <= 2000) =>
                  s.method = "EMS" /\ s.cost_jpy = 5000 /\ s.cost_usd = 3333
            /\ (w # None /\ Val(w) > 2000) =>
                  /\ s.cost_jpy = 8000
                  /\ 2 * (150 * s.cost_usd - 8000 * 100) <= 150
                  /\ 2 * (8000 * 100 - 150 * s.cost_usd) <= 150
                  /\ s.method \notin C9_TierMethods

\* a weight over the last tier answered with the excess-weight fallback
C9_Witness ==
    /\ shipping # None
    /\ weight_arg # None
    /\ Val(weight_arg) > 2000
    /\ Val(shipping).cost_jpy = 8000
    /\ Val(shipping).cost_usd = 5333

\* C9, the tier boundaries 50, 300 and 2000 belong to the lower tier
C9_WitnessBoundary ==
    /\ shipping # None
    /\ weight_arg \in {Some(50), Some(300), Some(2000)}

\* C10: in cents, with the fee table of the marketplace (ebay's for an unknown
\* one): platform fees = round(sale x fvf rate) + fixed payment fee
\* + round(sale x payment rate) + listing fee, each round to the nearest cent;
\* total cost = wholesale USD + shipping USD + platform fees, where wholesale
\* USD is wholesale JPY / 150 to the nearest cent and shipping USD is the
\* override or the estimate; profit = sale - total cost.  (300 JPY, $15.00,
\* 50 g, ebay) gives 6.84, (600 JPY, $15.00, 50 g) 4.84 and (5000 JPY, $100.00,
\* 300 g) 29.12 at margin 0.2912, all profitable.
C10_Fees(platform) ==
    IF platform = "etsy"
    THEN [fvf_rate |-> 650, payment_fee_fixed |-> 25, payment_fee_rate |-> 300,
          listing_fee |-> 20]
    ELSE [fvf_rate |-> 1325, payment_fee_fixed |-> 30, payment_fee_rate |-> 0,
          listing_fee |-> 0]

\* c is n / d rounded to the nearest unit (either neighbour at a tie)
C10_Nearest(c, n, d) == 2 * (d * c - n) <= d /\ 2 * (n - d * c) <= d

C10_Example(r, wholesale_jpy, sale_usd, weight_g, profit) ==
    (/\ r.wholesale_jpy = wholesale_jpy /\ r.sale_usd = sale_usd
     /\ r.platform = "ebay" /\ Val(profit_args).weight_g = Some(weight_g)
     /\ Val(profit_args).shipping_override_usd = None)
    => (r.profit_usd = profit /\ r.profitable)

C10_ProfitIdentities ==
    profit_result # None =>
        LET r == Val(profit_result)
            a == Val(profit_args)
            f == C10_Fees(a.platform)
        IN  /\ C10_Nearest(r.ebay_fvf_usd, a.sale_usd * f.fvf_rate, 10000)
            /\ r.ebay_payment_usd = f.payment_fee_fixed
            /\ \E payment_variable \in (0 - 20)..310 :
                  /\ C10_Nearest(payment_variable, a.sale_usd * f.payment_fee_rate, 10000)
                  /\ r.platform_fees_usd = r.ebay_fvf_usd + f.payment_fee_fixed
                                           + payment_variable + f.listing_fee
            /\ C10_Nearest(r.wholesale_usd, a.wholesale_jpy * 100, 150)
            /\ r.shipping_usd = IF a.shipping_override_usd # None
                                THEN Val(a.shipping_override_usd)
                                ELSE r.shipping.cost_usd
            /\ r.total_cost_usd = r.wholesale_usd + r.shipping_usd + r.platform_fees_usd
            /\ r.profit_usd = a.sale_usd - r.total_cost_usd
            /\ C10_Example(r, 300, 1500, 50, 684)
            /\ C10_Example(r, 600, 1500, 50, 484)
            /\ C10_Example(r, 5000, 10000, 300, 2912)
            /\ (r.wholesale_jpy = 5000 /\ r.sale_usd = 10000 /\ r.platform = "ebay"
                /\ a.weight_g = Some(300) /\ a.shipping_override_usd = None)
                  => r.profit_margin = 2912

\* the knife example computed: 5000 JPY, $100.00, 300 g on ebay
C10_Witness ==
    /\ profit_result # None
    /\ profit_args = Some([wholesale_jpy |-> 5000, sale_usd |-> 10000,
                           weight_g |-> Some(300), shipping_override_usd |-> None,
                           platform |-> "ebay"])
    /\ Val(profit_result).profit_usd = 2912
    /\ Val(profit_result).profitable

\* C10, a marketplace with a listing fee and a variable payment fee
C10_WitnessEtsy ==
    /\ profit_result # None
    /\ Val(profit_args).platform = "etsy"
    /\ Val(profit_args).sale_usd = 1500
    /\ Val(profit_result).platform_fees_usd = 98 + 25 + 45 + 20

\* C11, the part about the margin and the flag: profitable is true exactly when
\* profit_margin >= 0.25; profit_margin is profit / sale price to the nearest
\* 1/10000 when the sale price is > 0, and 0 with profitable false when the
\* sale price is <= 0.
C11_MarginAndFlag(r) ==
    /\ r.profitable <=> r.profit_margin >= 2500
    /\ r.sale_usd > 0 => C10_Nearest(r.profit_margin, r.profit_usd * 10000, r.sale_usd)
    /\ r.sale_usd <= 0 => (r.profit_margin = 0 /\ ~r.profitable)

C11_WitnessNoSalePrice ==
    /\ profit_result # None
    /\ Val(profit_result).sale_usd <= 0
    /\ Val(profit_result).profit_margin = 0

\* C12: calculate_profit called with a sale price <= 0 returns a result that
\* has an error field.
C12_ErrorFieldForInvalidPrice ==
    (profit_result # None /\ Val(profit_args).sale_usd <= 0)
        => "error" \in DOMAIN Val(profit_result)

\* what the code returns instead: the ordinary result keys, margin 0
C12_InvalidPriceGivesOrdinaryResult ==
    (profit_result # None /\ Val(profit_args).sale_usd <= 0)
        => /\ "error" \notin DOMAIN Val(profit_result)
           /\ Val(profit_result).profit_margin = 0
           /\ ~Val(profit_result).profitable

\* the sum of the two rates of a marketplace's fee model, in 1/10000
C13_TotalRate(platform) ==
    C10_Fees(platform).fvf_rate + C10_Fees(platform).payment_fee_rate

C13_IsError(r) ==
    /\ r.suggested_price_usd = None
    /\ "error" \in DOMAIN r
    /\ "breakdown" \notin DOMAIN r

\* C13 as stated: whenever 1 - (final-value-fee rate + variable payment fee
\* rate) - target margin <= 0 the result has no price, an error field and no
\* breakdown; target margin 0.90 is such a case on every marketplace.
C13_InfeasibleTargetNeverPriced ==
    suggest_result # None =>
        LET a == Val(suggest_args)
            r == Val(suggest_result)
        IN  /\ 10000 - C13_TotalRate(a.platform) - a.target_margin <= 0 => C13_IsError(r)
            /\ a.target_margin = 9000 => C13_IsError(r)

\* C13 as amended: the result has no price, an error field and no breakdown
\* exactly when 1 - (rates) - target margin <= 0; target margin 0.90 is such a
\* case with the ebay fee model (ebay and unknown marketplaces), while on etsy
\* (rates 0.065 + 0.03) it is feasible and gets a price.
C13_InfeasibleTargetNeverPricedPerFeeModel ==
    suggest_result # None =>
        LET a == Val(suggest_args)
            r == Val(suggest_result)
        IN  /\ 10000 - C13_TotalRate(a.platform) - a.target_margin <= 0 <=> C13_IsError(r)
            /\ (a.target_margin = 9000 /\ a.platform # "etsy") => C13_IsError(r)
            /\ (a.target_margin = 9000 /\ a.platform = "etsy")
                  => (r.suggested_price_usd # None /\ "breakdown" \in DOMAIN r)

\* target margin 0.90, 300 JPY, ebay: refused
C13_Witness ==
    /\ suggest_result # None
    /\ Val(suggest_args).target_margin = 9000
    /\ Val(suggest_args).wholesale_jpy = 300
    /\ Val(suggest_args).platform = "ebay"
    /\ C13_IsError(Val(suggest_result))

\* C13, target margin 0.90, 300 JPY, 50 g on etsy: priced at $1264.00
C13_WitnessEtsy ==
    /\ suggest_result # None
    /\ Val(suggest_args).target_margin = 9000
    /\ Val(suggest_args).wholesale_jpy = 300
    /\ Val(suggest_args).platform = "etsy"
    /\ Val(suggest_result).suggested_price_usd = Some(126400)

C14_WitnessNullWeight ==
    /\ suggest_result # None
    /\ ~C13_IsError(Val(suggest_result))
    /\ Val(suggest_args).weight_g = None
    /\ Val(suggest_args).target_margin = 3000
    /\ Val(suggest_result).breakdown.profit_margin >= 2900

\* C19: with a marketplace that is not in the fee table, calculate_profit
\* returns the fees, total cost, profit, margin and profitable flag, and
\* suggest_price the suggested price and breakdown, that "ebay" gets for the
\* same other arguments.
C19_SameNumbers(r, e) ==
    /\ r.ebay_fvf_usd = e.ebay_fvf_usd
    /\ r.ebay_payment_usd = e.ebay_payment_usd
    /\ r.platform_fees_usd = e.platform_fees_usd
    /\ r.total_cost_usd = e.total_cost_usd
    /\ r.profit_usd = e.profit_usd
    /\ r.profit_margin = e.profit_margin
    /\ r.profitable = e.profitable

C19_UnknownMarketplaceIsEbay ==
    /\ (profit_result # None /\ Val(profit_args).platform \notin {"ebay", "etsy"}) =>
          LET a == Val(profit_args)
          IN  /\ C19_SameNumbers(Val(profit_result),
                     calculate_profit(a.wholesale_jpy, a.sale_usd, a.weight_g,
                                      a.shipping_override_usd, "ebay"))
              /\ Val(profit_result).ebay_payment_usd = 30
              /\ C10_Nearest(Val(profit_result).ebay_fvf_usd, a.sale_usd * 1325, 10000)
    /\ (suggest_result # None /\ Val(suggest_args).platform \notin {"ebay", "etsy"}) =>
          LET a == Val(suggest_args)
              r == Val(suggest_result)
              e == suggest_price(a.wholesale_jpy, a.weight_g, a.target_margin, "ebay")
          IN  /\ r.suggested_price_usd = e.suggested_price_usd
              /\ C13_IsError(r) <=> C13_IsError(e)
              /\ ~C13_IsError(r) => C19_SameNumbers(r.breakdown, e.breakdown)

\* both functions called with the marketplace "base"
C19_Witness ==
    /\ profit_result # None
    /\ Val(profit_args).platform = "base"
    /\ Val(profit_args).sale_usd = 1500
    /\ Val(profit_result).platform_fees_usd = 199 + 30

C19_WitnessSuggest ==
    /\ suggest_result # None
    /\ Val(suggest_args).platform = "base"
    /\ Val(suggest_result).suggested_price_usd # None

\* C20: the result exposes every fee component, so that the fee components
\* it exposes add up to the total platform fees it exposes.
C20_ExposedComponentsAddUp ==
    profit_result # None =>
        LET r == Val(profit_result)
        IN  /\ {"wholesale_usd", "shipping_usd", "total_cost_usd", "profit_usd",
                "profit_margin", "platform_fees_usd"} \subseteq DOMAIN r
            /\ r.ebay_fvf_usd + r.ebay_payment_usd = r.platform_fees_usd

\* what the code returns: for the ebay fee model the two exposed components
\* are the whole fee; with etsy the variable payment fee and the listing fee
\* are in the total only
C20_ComponentsAddUpForEbayModel ==
    profit_result # None =>
        LET r == Val(profit_result)
        IN  /\ r.platform # "etsy" => r.ebay_fvf_usd + r.ebay_payment_usd = r.platform_fees_usd
            /\ (r.platform = "etsy" /\ r.sale_usd > 0)
                  => r.ebay_fvf_usd + r.ebay_payment_usd < r.platform_fees_usd

\* C15: a second call of calculate_profit or check_ban_risk with the same
\* arguments and the same reference data returns what the first returned, and
\* no call changes its arguments, the product record, the brand deny-list or
\* the country-restriction table.
C15_InputsUnchanged ==
    /\ profit_args' = profit_args
    /\ product' = product
    /\ sale_price_usd' = sale_price_usd
    /\ brand_blacklist' = brand_blacklist
    /\ country_restrictions' = country_restrictions

C15_WitnessProfit ==
    /\ profit_again # None
    /\ Val(profit_again).profit_usd = 684

\* C16: no listing workflow publishes a product whose risk verdict is unsafe:
\* every create_listing call a marketplace client received, and every
\* listings row recorded with ban_check_passed, is for a product whose
\* check_ban_risk verdict has safe = TRUE.
C16_Verdict(product_id) ==
    check_ban_risk(products[product_id], brand_blacklist, country_restrictions, None)

C16_UnsafeNeverPublished ==
    /\ \A i \in 1..Len(create_listing_calls) :
          C16_Verdict(create_listing_calls[i].product_id).safe
    /\ \A i \in 1..Len(listings) :
          listings[i].ban_check_passed => C16_Verdict(listings[i].product_id).safe

\* C16, what the code does guarantee: the two command-line workflows never
\* call create_listing for a product whose verdict is unsafe
C16_CommandLineRefusesUnsafe ==
    \A i \in 1..Len(create_listing_calls) :
        create_listing_calls[i].workflow = "cli list"
            => C16_Verdict(create_listing_calls[i].product_id).safe

\* C17: whenever a listing is published for a product whose category has
\* restricted countries, the create_listing request carries exactly those
\* country codes as shipping exclusions, and the listings row records them.
C17_Restricted(product_id) ==
    set(check_ban_risk(products[product_id], brand_blacklist,
                       country_restrictions, None).excluded_countries)

C17_ExclusionsPassed ==
    /\ \A i \in 1..Len(create_listing_calls) :
          LET call == create_listing_calls[i]
          IN  C17_Restricted(call.product_id) # {}
                  => /\ call.exclusions # None
                     /\ set(Val(call.exclusions)) = C17_Restricted(call.product_id)
    /\ \A i \in 1..Len(listings) :
          LET row == listings[i]
          IN  C17_Restricted(row.product_id) # {}
                  => /\ row.excluded_countries # None
                     /\ set(Val(row.excluded_countries)) = C17_Restricted(row.product_id)

\* C17, what the code does guarantee: a request to the eBay client from the
\* web workflows carries the restricted countries of the product's category
C17_WebEbayPassesExclusions ==
    \A i \in 1..Len(create_listing_calls) :
        LET call == create_listing_calls[i]
        IN  (call.client = "ebay" /\ call.workflow # "cli list"
             /\ C17_Restricted(call.product_id) # {})
                => /\ call.exclusions # None
                   /\ set(Val(call.exclusions)) = C17_Restricted(call.product_id)

\* C17: the command-line workflows never publish a product of a restricted
\* category at all (its verdict is unsafe), so list-etsy, which passes no
\* exclusions, never gets to publish one
C17_CommandLineNeverPublishesRestricted ==
    \A i \in 1..Len(create_listing_calls) :
        create_listing_calls[i].workflow = "cli list"
            => C17_Restricted(create_listing_calls[i].product_id) = {}

\* C18: an unknown weight stays unknown end to end: the row of the product
\* last upserted holds the weight it was upserted with (None stays None),
\* get_product returns a stored row, check_ban_risk and the order processor
\* pass the fetched row's weight to calculate_profit as it is (None, not 0),
\* and the shipping estimate for an unknown weight is labelled as an estimate,
\* which the estimate for weight 0 is not.
C18_UnknownWeightStaysUnknown ==
    /\ upserted # None
          => \E i \in 1..Len(products) :
                /\ products[i].supplier_product_id = Val(upserted).supplier_product_id
                /\ products[i].weight_g = Val(upserted).weight_g
    /\ fetched # None => \E i \in 1..Len(products) : products[i] = Val(fetched)
    /\ profit_call # None => Val(profit_call).weight_g = Val(fetched).weight_g
    /\ profit_result # None
          => (Val(profit_result).shipping.method = "ePacket Lite (estimate)"
                 <=> Val(fetched).weight_g = None)
    /\ estimate_shipping(None).method = "ePacket Lite (estimate)"
    /\ estimate_shipping(Some(0)).method = "ePacket Lite"

\* a product upserted and read back with weight None, and an order's profit
\* computed for it
C18_Witness ==
    /\ upserted # None /\ fetched # None
    /\ Val(upserted).weight_g = None
    /\ Val(fetched).supplier_product_id = Val(upserted).supplier_product_id
    /\ Val(fetched).weight_g = None
    /\ profit_call # None
    /\ Val(profit_call).platform = "etsy"
    /\ Val(profit_call).weight_g = None
    /\ profit_result # None

\* C18, the same product given to check_ban_risk with a sale price
C18_WitnessBanCheck ==
    /\ upserted # None /\ fetched # None
    /\ Val(upserted).weight_g = None
    /\ Val(fetched).supplier_product_id = Val(upserted).supplier_product_id
    /\ verdict # None
    /\ sale_price_usd = Some(1500)
    /\ profit_result = None
    /\ profit_call # None
    /\ Val(profit_call).weight_g = None

\* no call of process() is under way
ProcessReturned == \A r \in Runs : runs[r].pc \in {"idle", "done"}

\* the new_orders totals the first n calls of process() reported, summed
RECURSIVE NewOrdersOfRuns(_)
NewOrdersOfRuns(n) ==
    IF n = 0 THEN 0 ELSE runs[n].results.new_orders + NewOrdersOfRuns(n - 1)

\* the orders rows linked to a listing
OrdersOfListing(listing_id) ==
    {i \in DOMAIN orders : orders[i].listing_id = Some(listing_id)}

\* C21 (first part): the orders table holds at most one row per
\* (platform, platform_order_id).
C21_OneRowPerPlatformOrder ==
    \A i, j \in DOMAIN orders :
        (/\ orders[i].platform = orders[j].platform
         /\ orders[i].platform_order_id = orders[j].platform_order_id) => i = j

\* C21 (second part): when process() turns to an order whose row exists, its
\* next step drops the order: no row is created, no sales counter changes, no
\* notification is sent and the run's totals stay as they are.
C21_RecordedOrderIsSkipped ==
    \A r \in Runs :
        (/\ runs[r].pc = "check"
         /\ runs'[r] # runs[r]
         /\ \E i \in DOMAIN orders :
               /\ orders[i].platform = Head(runs[r].to_check)
               /\ orders[i].platform_order_id = Head(runs[r].feed).platform_order_id)
        => /\ orders' = orders
           /\ listings' = listings
           /\ notified' = notified
           /\ runs'[r].results = runs[r].results
           /\ runs'[r].pc \in {"check", "get_orders", "complete"}
           /\ runs'[r].feed # runs[r].feed

\* C21: sequential runs of process() are idempotent per platform order: one row
\* per (platform, platform_order_id), a recorded order is skipped without any
\* effect, and between runs the new_orders totals and the notifications sent
\* are one per row.
C21_IdempotentIngestion ==
    /\ [](/\ C21_OneRowPerPlatformOrder
          /\ ProcessReturned =>
                /\ NewOrdersOfRuns(MaxRuns) = Len(orders)
                /\ Len(notified) = Len(orders))
    /\ [][C21_RecordedOrderIsSkipped]_vars

\* a second run was fed nothing but recorded orders and reported no new order
C21_Witness ==
    /\ runs[1].pc = "done" /\ runs[1].results.new_orders = 2
    /\ runs[2].pc = "done" /\ runs[2].results.new_orders = 0
    /\ runs[2].results.errors = <<>>
    /\ Len(orders) = 2 /\ Len(notified) = 2

\* C26: between sequential runs of process() every listing's sales counter is
\* its initial value plus the number of orders rows linked to the listing.
C26_SalesCountLinkedOrders ==
    ProcessReturned =>
        \A l \in DOMAIN listings :
            listings[l].sales = OrderListings[l].sales + Cardinality(OrdersOfListing(l))

\* one feed brought two new orders for listing 1, which had 2 sales before
C26_Witness ==
    /\ ProcessReturned
    /\ \E r \in Runs : runs[r].results.new_orders = 2
    /\ Cardinality(OrdersOfListing(1)) = 2
    /\ listings[1].sales = 4

\* C27 as stated: a call process(platform=p) polls no client but p's, whether
\* or not a client is configured for p.
C27_OnlyAskedPlatformPolled ==
    \A call \in get_orders_calls :
        runs[call.run].platform # None => call.client = Val(runs[call.run].platform)

\* C27, the part that holds: when a client is configured for p, the call
\* process(platform=p) polls that client only and records orders of p only.
C27_ConfiguredPlatformOnly ==
    \A r \in Runs :
        (/\ runs[r].platform # None
         /\ \E i \in DOMAIN clients : clients[i] = Val(runs[r].platform))
        => /\ \A call \in get_orders_calls :
                 call.run = r => call.client = Val(runs[r].platform)
           /\ runs[r].pc \in {"check", "lookup", "create", "update"} =>
                 Head(runs[r].to_check) = Val(runs[r].platform)

\* C29 as stated: also when calls of process() overlap, the orders table holds
\* at most one row per (platform, platform_order_id) and, once the calls have
\* returned, every listing's sales counter has been incremented once per order.
C29_OneRowWhenOverlapping ==
    /\ \A i, j \in DOMAIN orders :
          (/\ orders[i].platform = orders[j].platform
           /\ orders[i].platform_order_id = orders[j].platform_order_id) => i = j
    /\ ProcessReturned =>
          \A l \in DOMAIN listings :
              listings[l].sales =
                  OrderListings[l].sales
                  + Cardinality({orders[i].platform_order_id : i \in OrdersOfListing(l)})

\* C30 as stated: between calls of process(), also after calls in which a
\* database call raised, every orders row linked to a listing is counted once
\* in the listing's sales counter and once in a run's new_orders total.
C30_BookkeepingAllOrNothing ==
    ProcessReturned =>
        /\ \A l \in DOMAIN listings :
              listings[l].sales =
                  OrderListings[l].sales + Cardinality(OrdersOfListing(l))
        /\ NewOrdersOfRuns(MaxRuns) = Len(orders)

\* the listings a call sync(platform) is about: all of them, or the platform's
InScopeOfSync(l) ==
    sync_run.platform = None \/ listings[l].platform = Val(sync_run.platform)

\* the listings sync() is able to switch: they have a platform listing id, a
\* client is configured for their platform and their product row exists
Switchable(l) ==
    /\ listings[l].platform_listing_id # None
    /\ HasClient(listings[l].platform)
    /\ listings[l].product_id # None
    /\ Val(listings[l].product_id) \in DOMAIN products

StockOfListing(l) == products[Val(listings[l].product_id)].stock_status

SyncReturnedWithoutErrors ==
    sync_run.pc = "done" /\ sync_run.results.errors = <<>>

\* C22 (state part): after sync() has returned without errors no switchable
\* listing of its platforms is active with a product that is out of stock or
\* discontinued; every listing it reports as deactivated is paused and had
\* deactivate_listing called on its platform.
C22_NoActiveListingOutOfStock ==
    SyncReturnedWithoutErrors =>
        /\ \A l \in DOMAIN listings :
              (/\ InScopeOfSync(l) /\ Switchable(l)
               /\ StockOfListing(l) \in {"out_of_stock", "discontinued"})
              => listings[l].status # "active"
        /\ \A d \in DOMAIN sync_run.results.deactivated :
              LET l == sync_run.results.deactivated[d]
              IN  /\ listings[l].status = "paused"
                  /\ \E c \in DOMAIN platform_calls :
                        platform_calls[c] =
                            [op |-> "deactivate_listing",
                             platform |-> listings[l].platform,
                             platform_listing_id |-> Val(listings[l].platform_listing_id),
                             raised |-> FALSE]

\* C22 (step part): no step of sync() changes an active listing whose product
\* is in stock, and items_changed grows by the number of rows a step changes.
C22_OnlyChangedListingsCounted ==
    /\ \A l \in DOMAIN listings :
          (/\ listings[l].status = "active" /\ listings[l].product_id # None
           /\ StockOfListing(l) = "in_stock")
          => listings'[l] = listings[l]
    /\ sync_run'.sync_id = sync_run.sync_id =>
          sync_run'.results.items_changed - sync_run.results.items_changed
              = Cardinality({l \in DOMAIN listings : listings'[l] # listings[l]})

\* C22: sync() pauses the active listings whose product is out of stock or
\* discontinued, leaves those in stock alone and counts what it changed.
C22_OutOfStockDeactivated ==
    /\ []C22_NoActiveListingOutOfStock
    /\ [][C22_OnlyChangedListingsCounted]_vars

\* a run paused a sold-out and a discontinued listing and left one active
C22_Witness ==
    /\ SyncReturnedWithoutErrors
    /\ Len(sync_run.results.deactivated) = 2
    /\ sync_run.results.items_changed = 2
    /\ \E l \in DOMAIN listings :
          /\ listings[l].status = "active" /\ Switchable(l)
          /\ StockOfListing(l) = "in_stock"

\* C23 as stated: after a sync() run that completed without errors no
\* switchable listing of its platforms is paused while its product is in
\* stock, however many paused listings exist.
C23_RestockedReactivated ==
    SyncReturnedWithoutErrors =>
        \A l \in DOMAIN listings :
            (/\ InScopeOfSync(l) /\ Switchable(l)
             /\ StockOfListing(l) = "in_stock")
            => listings[l].status # "paused"

\* C23, the part that holds: when the listings table has no more rows than
\* get_listings returns, a run without errors leaves no restocked listing paused.
C23_RestockedReactivatedWithinLimit ==
    (SyncReturnedWithoutErrors /\ Len(listings) <= DEFAULT_LIMIT) =>
        \A l \in DOMAIN listings :
            (/\ InScopeOfSync(l) /\ Switchable(l)
             /\ StockOfListing(l) = "in_stock")
            => /\ listings[l].status = "active"
               /\ \/ l \notin {sync_run.results.reactivated[d] :
                                  d \in DOMAIN sync_run.results.reactivated}
                  \/ \E c \in DOMAIN platform_calls :
                        /\ platform_calls[c].op = "activate_listing"
                        /\ platform_calls[c].platform_listing_id
                               = Val(listings[l].platform_listing_id)
                        /\ ~platform_calls[c].raised

\* C28 (step part): a step in which the marketplace call raises changes no
\* listings row and no sync_log row, appends one error, counts no change and
\* goes on to the next listing of the query.
C28_FailedCallChangesNothing ==
    (/\ Len(platform_calls') = Len(platform_calls) + 1
     /\ platform_calls'[Len(platform_calls')].raised)
    => /\ listings' = listings
       /\ sync_log' = sync_log
       /\ Len(sync_run'.results.errors) = Len(sync_run.results.errors) + 1
       /\ sync_run'.results.items_changed = sync_run.results.items_changed
       /\ sync_run'.todo = Tail(sync_run.todo)
       /\ sync_run'.pc \in {"check_and_sync", "paused_listings",
                            "check_reactivation", "complete"}

\* C28 (state part): a listing whose last marketplace call raised has the
\* status it had before the call, and a run that has returned has a
\* 'completed' sync_log row, with or without errors.
C28_ReturnedRunCompleted ==
    /\ sync_run.pc = "done" => sync_log[sync_run.sync_id].status = "completed"
    /\ \A e \in DOMAIN sync_run.results.errors :
          LET error == sync_run.results.errors[e]
          IN  listings[error.listing].status =
                  IF error.op = "deactivate_listing" THEN "active" ELSE "paused"

\* C28: a raising marketplace call is isolated to its listing.
C28_FailureIsolated ==
    /\ []C28_ReturnedRunCompleted
    /\ [][C28_FailedCallChangesNothing]_vars

\* deactivate_listing raised for listing 1, listing 2 was paused all the same,
\* and the run returned with a 'completed' row
C28_Witness ==
    /\ sync_run.pc = "done"
    /\ sync_run.results.errors = <<[op |-> "deactivate_listing", listing |-> 1]>>
    /\ sync_run.results.deactivated = <<2>>
    /\ listings[1].status = "active" /\ listings[2].status = "paused"
    /\ sync_log[sync_run.sync_id].status = "completed"

\* the calls of process() and sync() that have started and not yet ended
ProcessUnderWay(r) == runs[r].pc \notin {"off", "idle", "done"}
SyncUnderWay == sync_run.pc \notin {"off", "idle", "done", "raised"}

\* C24 (state part): every started call has its own sync_log row; the row is
\* 'running' while the call is under way, 'completed' once it has returned
\* and 'failed' once it has raised; no other row is 'running'.
C24_RowFollowsRun ==
    /\ \A r \in Runs :
          runs[r].pc \notin {"off", "idle"} =>
              /\ runs[r].sync_id \in DOMAIN sync_log
              /\ sync_log[runs[r].sync_id].sync_type = "orders"
              /\ sync_log[runs[r].sync_id].status =
                    IF runs[r].pc = "done" THEN "completed" ELSE "running"
              /\ \A q \in Runs \ {r} :
                    runs[q].pc \notin {"off", "idle"} => runs[q].sync_id # runs[r].sync_id
    /\ sync_run.pc \notin {"off", "idle"} =>
          /\ sync_run.sync_id = Len(sync_log)
          /\ sync_log[sync_run.sync_id].sync_type = "inventory"
          /\ sync_log[sync_run.sync_id].status =
                IF sync_run.pc = "done" THEN "completed"
                ELSE IF sync_run.pc = "raised" THEN "failed" ELSE "running"
    /\ \A i \in DOMAIN sync_log :
          sync_log[i].status = "running" =>
              \/ \E r \in Runs : ProcessUnderWay(r) /\ runs[r].sync_id = i
              \/ SyncUnderWay /\ sync_run.sync_id = i
    /\ \A r \in Runs : runs[r].pc = "off" \/
          Len(sync_log) = Cardinality({q \in Runs : runs[q].pc # "idle"})

\* C24 (step part): a step adds a sync_log row only when a call starts, one
\* row, 'running'; a row that is 'completed' or 'failed' never changes again.
C24_RowsAreFinal ==
    /\ \A i \in DOMAIN sync_log :
          sync_log[i].status \in {"completed", "failed"} =>
              i \in DOMAIN sync_log' /\ sync_log'[i] = sync_log[i]
    /\ Len(sync_log') \in {Len(sync_log), Len(sync_log) + 1}
    /\ Len(sync_log') = Len(sync_log) + 1 <=>
          \/ \E r \in Runs : runs[r].pc = "idle" /\ runs'[r].pc # "idle"
          \/ /\ sync_run.pc \in {"idle", "done", "raised"}
             /\ sync_run'.pc = "active_listings"
    /\ Len(sync_log') = Len(sync_log) + 1 =>
          sync_log'[Len(sync_log')].status = "running"

C24_WitnessOrders ==
    /\ \A r \in Runs : runs[r].pc = "done"
    /\ \A i \in DOMAIN sync_log :
          sync_log[i].sync_type = "orders" /\ sync_log[i].status = "completed"

\* a step that is a call of get_valid_token()
TokenCall == token_result = None /\ token_result' # None

\* C25, the stored token: more than 60 seconds before expires_at it is returned
\* as it is, without a refresh; with no expires_at, or from 60 seconds before
\* it on, the refresh token is sent and either the new token is saved (keeping
\* the refresh token if none was issued) and its access token returned, or the
\* refresh raises and nothing is returned.
C25_StoredTokenPolicy ==
    (TokenCall /\ token_file # None) =>
        LET stored == Val(token_file)
            res == Val(token_result')
        IN  IF stored.expires_at # None /\ clock < Val(stored.expires_at) - 60
            THEN /\ res = [raised |-> None, value |-> Some(stored.access_token),
                           sent |-> None]
                 /\ token_file' = token_file
            ELSE IF res.raised = None
            THEN /\ res.sent # None /\ res.sent = stored.refresh_token
                 /\ res.value = Some(<<"A", clock>>)
                 /\ Val(token_file').access_token = <<"A", clock>>
                 /\ Val(token_file').saved_at = Some(clock)
                 /\ Val(token_file').refresh_token
                        \in {Some(<<"R", clock>>), stored.refresh_token}
            ELSE res.value = None /\ token_file' = token_file

\* C25 as stated: with no token stored the call raises ValueError.
C25_NoTokenRaises ==
    (TokenCall /\ token_file = None) =>
        /\ Val(token_result') = [raised |-> Some("ValueError"), value |-> None,
                                 sent |-> None]
        /\ token_file' = None

\* C25, the case the statement leaves out: with no token stored, platform
\* "base" and both BASE tokens in the environment, the token is taken from the
\* environment, saved with expires_at 0 and refreshed like an expired one;
\* everywhere else the call raises ValueError.
C25_NoTokenRaisesOrBootstraps ==
    (TokenCall /\ token_file = None) =>
        LET res == Val(token_result')
        IN  IF oauth.platform = "base" /\ oauth.environ
            THEN /\ res.sent = Some(<<"R", -1>>)
                 /\ token_file' # None
                 /\ IF res.raised = None
                    THEN /\ res.value = Some(<<"A", clock>>)
                         /\ Val(token_file').access_token = <<"A", clock>>
                    ELSE /\ res.value = None
                         /\ Val(token_file').access_token = <<"A", -1>>
                         /\ Val(token_file').expires_at = Some(0)
            ELSE /\ res = [raised |-> Some("ValueError"), value |-> None, sent |-> None]
                 /\ token_file' = None

\* C25 as stated: get_valid_token returns the stored token only while it is
\* more than 60 seconds from expiry, refreshes otherwise, and raises
\* ValueError when no token is stored.
C25_ValidTokenOrValueError ==
    [][C25_StoredTokenPolicy /\ C25_NoTokenRaises]_vars

\* C25, amended: as stated, except that platform "base" with its tokens in the
\* environment bootstraps the token file instead of raising.
C25_ValidTokenOrBootstrap ==
    [][C25_StoredTokenPolicy /\ C25_NoTokenRaisesOrBootstraps]_vars

\* exactly 60 seconds before expires_at the token was refreshed; the endpoint
\* issued no refresh token and the previous one was kept
C25_Witness ==
    /\ clock = 940
    /\ token_result # None
    /\ Val(token_result).value = Some(<<"A", 940>>)
    /\ Val(token_result).sent = Some(<<"R", 0>>)
    /\ Val(token_file).refresh_token = Some(<<"R", 0>>)
    /\ Val(token_file).access_token = <<"A", 940>>

====
